---- MODULE Spec2Model ----
(***************************************************************************)
(* Gardena smart system: the WebSocket reconnect loop of SmartSystem       *)
(* (gardena/smart_system.py) and the supervising wrapper                   *)
(* GardenaSmartSystem (__init__.py).                                       *)
(*                                                                         *)
(* asyncio is cooperative: a coroutine runs without interruption from one  *)
(* await to the next.  The position of the reconnect task is therefore the *)
(* await it is suspended at, and every action below is the code that runs  *)
(* from the completion of one await up to the next await.                  *)
(***************************************************************************)
EXTENDS Integers, Sequences, FiniteSets, TLC

VARIABLES
    pc,                      \* await point of GardenaSmartSystem._ws_task
    must_cancel,             \* Task.cancel() requested, CancelledError not yet thrown
    sock,                    \* the websocket of the current attempt: none / open / closed
    is_ws_connected,         \* SmartSystem.is_ws_connected
    should_stop,             \* SmartSystem.should_stop
    self_connection_attempts,\* SmartSystem.connection_attempts (the attribute)
    connection_attempts,     \* local connection_attempts of start_ws
    delay,                   \* local delay of start_ws, as passed to _wait_with_cancel
    slept,                   \* iterations of _wait_with_cancel already slept
    elapsed,                 \* loop time - connection_start_time
    handler,                 \* except clause of start_ws taken by the current attempt
    exit_reason,             \* why the read loop of __launch_websocket_loop was left
    close_then,              \* what is pending while websocket.close() is awaited
    reconnect_attempts,      \* local reconnect_attempts of _managed_websocket_connection
    shutdown_event,          \* GardenaSmartSystem._shutdown_event
    stop_pc,                 \* await point of a stop() call
    stop_calls,              \* stop() calls made so far
    stop_result,             \* how the last finished stop() call ended
    stop_found_running,      \* a stop() call found the task running and cancelled it
    revoke_posts,            \* POSTs sent to /v1/oauth2/revoke
    has_token,               \* client exists and token_manager.access_token is set
    message,                 \* local message of __launch_websocket_loop
    status_code,             \* r.status_code of the response in __get_ws_url
    locations,               \* SmartSystem.locations: the ids, in insertion order
    task_location,           \* the location _managed_websocket_connection was given
    start_result,            \* how the last start() call ended
    orphans,                 \* running tasks that _ws_task no longer refers to
    domain_data,             \* hass.data[DOMAIN]: the keys of the values stored
    auth_pc,                 \* await point of _authenticate_with_retry
    attempt,                 \* loop variable attempt of _authenticate_with_retry
    authenticate_calls,      \* calls of SmartSystem.authenticate made so far
    wait_time,               \* local wait_time of _authenticate_with_retry
    cleanup_wait,            \* local cleanup_wait of _authenticate_with_retry
    cleanup_runs,            \* runs of _check_and_cleanup_existing_sessions
    ex,                      \* the error the except clause of line 119 holds
    response,                \* what the GET of update_locations answered
    update_result,           \* how the last update_locations call ended
    service_status,          \* r.status_code of the PUT, 0 when it got no answer
    service_result,          \* how the last call_smart_system_service ended
    service_puts,            \* PUTs sent by the last call_smart_system_service
    device_map,              \* the group of fragments DeviceFactory.build is given
    built,                   \* what DeviceFactory.build returned for device_map
    variant,                 \* BaseDevice.type of the device under update
    common,                  \* the seven common fields of the device
    activity,                \* activity (valve_activity of a WaterControl)
    duration,                \* mowing_/override_/valve_duration
    duration_timestamp,      \* mowing_/override_/valve_duration_timestamp
    remaining_time,          \* mowing_/override_/valve_remaining_time
    valves,                  \* SmartIrrigationControl.valves
    valve_durations,         \* SmartIrrigationControl.valve_durations
    fragment,                \* the fragment update_data is about to be called with
    callbacks,               \* BaseDevice.callbacks
    callback_log,            \* the callbacks the last update_data ran, with what each saw
    duration_data,           \* the duration attribute a remaining time is computed from
    base_remaining,          \* what _calculate_remaining_time returned for it
    sic_remaining,           \* remaining_seconds of SmartIrrigationControl for it
    ws_status_callback,      \* SmartSystem.ws_status_callback is set
    ws_notified,             \* the argument of the last call of the status callback
    location_devices,        \* Location.devices of every location, by location id
    frame,                   \* the frame on_message is called with
    on_message_result,       \* how on_message ended for it
    devices_response,        \* what the GET of update_devices returned
    update_devices_run,      \* the location update_devices ran for, and its calls of build
    clock,                   \* the wall clock, in half seconds
    read_value,              \* what the last read of the remaining-time field returned
    reads,                   \* the number of reads of the field
    setup_pc,                \* the step _complete_setup_background is at
    devices_loaded,          \* the locations update_devices returned for, in the setup
    current_delay            \* local current_delay of _managed_websocket_connection,
                             \* in half seconds

vars == <<pc, must_cancel, sock, is_ws_connected, should_stop,
          self_connection_attempts, connection_attempts, delay, slept, elapsed,
          handler, exit_reason, close_then, reconnect_attempts, shutdown_event,
          stop_pc, stop_calls, stop_result, stop_found_running, revoke_posts,
          has_token, message, status_code, locations, task_location, start_result, orphans,
          domain_data, auth_pc, attempt, authenticate_calls, wait_time,
          cleanup_wait, cleanup_runs, ex, response, update_result,
          service_status, service_result, service_puts, device_map, built,
          variant, common, activity, duration, duration_timestamp,
          remaining_time, valves, valve_durations, fragment, callbacks,
          callback_log, duration_data, base_remaining, sic_remaining,
          ws_status_callback, ws_notified, location_devices, frame,
          on_message_result, devices_response, update_devices_run, clock,
          read_value, reads, setup_pc, devices_loaded, current_delay>>

\* the REST calls of the client
restvars == <<response, update_result, service_status, service_result,
              service_puts>>

\* DeviceFactory.build
factoryvars == <<device_map, built>>

\* the device under update: its fields and its callbacks
devicevars == <<variant, common, activity, duration, duration_timestamp,
                remaining_time, valves, valve_durations, fragment>>
notifyvars == <<callbacks, callback_log>>

\* the computation of a remaining time
remainingvars == <<duration_data, base_remaining, sic_remaining>>

\* the devices of the locations, and the calls that fill and update them
treevars == <<location_devices, frame, on_message_result, devices_response,
              update_devices_run>>

\* the wall clock and the reads of the presentation layer
readvars == <<clock, read_value, reads>>

\* the background setup of the entry and the wait of the supervisor
backgroundvars == <<setup_pc, devices_loaded, current_delay>>

\* the REST calls of the client and the devices they fill
datavars == <<restvars, factoryvars, devicevars, notifyvars, remainingvars,
              ws_status_callback, treevars, readvars, backgroundvars>>

\* the state of _authenticate_with_retry and of hass.data
setupvars == <<domain_data, auth_pc, attempt, authenticate_calls, wait_time,
               cleanup_wait, cleanup_runs, ex>>

\* what GardenaSmartSystem.start decides
startvars == <<locations, task_location, start_result, orphans>>

\* everything that no step of the reconnect task writes
clientvars == <<should_stop, self_connection_attempts, shutdown_event, stop_pc,
                stop_calls, stop_result, stop_found_running, revoke_posts,
                has_token, startvars, setupvars, datavars>>

\* the wrapper and the session, but for the location map
wrappervars == <<must_cancel, should_stop, self_connection_attempts,
                 shutdown_event, stop_pc, stop_calls, stop_result,
                 stop_found_running, revoke_posts, has_token, task_location,
                 start_result, orphans, setupvars, ws_status_callback>>

\* the reconnect task, but for a pending cancellation
taskvars == <<pc, sock, is_ws_connected, connection_attempts, delay, slept,
              elapsed, handler, exit_reason, close_then, reconnect_attempts,
              message, status_code, ws_notified>>

(***************************************************************************)
(* Bounds of the model.                                                    *)
(***************************************************************************)
MaxAttempts == 3
MaxStopCalls == 2
MaxLocations == 2
MaxOrphans == 1
MaxBackoffAttempts == 13
MaxEntries == 2
MaxDuration == 4
MaxValves == 2
MaxCallbacks == 2
MaxDevices == 2
MaxIncluded == 3
MaxClock == 5
MaxReads == 2

\* the exceptions of start_ws the supervisor counts
MaxReconnectAttempts == 120

(***************************************************************************)
(* Constants of the program.                                               *)
(***************************************************************************)
MAX_BACKOFF_VALUE == 900
base_delay == 5
max_consecutive_failures == 5
max_connection_duration == 7200
poll_timeout == 5

Min(a, b) == IF a <= b THEN a ELSE b

(***************************************************************************)
(* Time.  elapsed is sampled at the instants that matter to the 2-hour     *)
(* cap; Later(e, d) is the first sampled instant not before e + d, so a    *)
(* long run of identical poll timeouts is one step.                        *)
(***************************************************************************)
TimeSamples ==
    {0, poll_timeout, max_connection_duration - poll_timeout,
     max_connection_duration, max_connection_duration + poll_timeout}
LastSample == CHOOSE s \in TimeSamples : \A u \in TimeSamples : u <= s

Later(e, d) ==
    IF e + d >= LastSample THEN LastSample
    ELSE CHOOSE s \in TimeSamples :
             /\ s >= e + d
             /\ \A u \in TimeSamples : u >= e + d => s <= u

Running == {"created", "negotiate", "neg_retry", "connect", "recv", "close",
            "sleep", "sup_wait"}
Done == {"cancelled", "completed", "failed"}
InStartWs == {"negotiate", "neg_retry", "connect", "recv", "close", "sleep"}

ErrorKinds == {"conn_closed", "rate_limit", "attr_closed", "generic"}

(***************************************************************************)
(* The location map of the client and the frames of the socket.            *)
(***************************************************************************)
LocationIds == 1 .. MaxLocations

\* the maps update_locations can have built: ids in insertion order, no id
\* twice
LocationMaps ==
    {l \in UNION {[1 .. n -> LocationIds] : n \in 0 .. MaxLocations} :
        \A i, j \in DOMAIN l : i # j => l[i] # l[j]}

LocationKeys == {locations[i] : i \in DOMAIN locations}

\* the frames the server can send, by what on_message makes of them:
\*   NOT_JSON       json.loads raises JSONDecodeError (line 548)
\*   NO_TYPE        JSON without the member "type": KeyError (line 549)
\*   LOCATION       type LOCATION, with the id of a location
\*   DEVICE         a type of supported_services, the id a string
\*   DEVICE_BAD_ID  a type of supported_services, the id not a string
\*   UNSUPPORTED    any other type
NoMessage == [type |-> "none", id |-> 0]
Messages ==
    {[type |-> "LOCATION", id |-> i] : i \in LocationIds}
        \cup {[type |-> ty, id |-> 0] :
                  ty \in {"NOT_JSON", "NO_TYPE", "DEVICE", "DEVICE_BAD_ID",
                          "UNSUPPORTED"}}

\* lines 562-565: an unknown id is logged, and line 565 subscripts the map
\* with it all the same: KeyError
parse_location(m) ==
    IF m.id \notin LocationKeys THEN "exception" ELSE "ok"

\* lines 567-572: split() of an id that is not a string raises
\* AttributeError
parse_device(m) ==
    IF m.type = "DEVICE_BAD_ID" THEN "attribute_error" ELSE "ok"

\* lines 547-560: how on_message ends for the frame m
on_message(m) ==
    CASE m.type \in {"NOT_JSON", "NO_TYPE"} -> "exception"
      [] m.type = "LOCATION" -> parse_location(m)
      [] m.type \in {"DEVICE", "DEVICE_BAD_ID"} -> parse_device(m)
      [] OTHER -> "ok"

\* "N/A" in a field that otherwise holds a number, and the value of a
\* local that was not assigned
NoValue == -1
NotComputed == -2

Max(a, b) == IF a >= b THEN a ELSE b

\* the attribute names update_common_data reads, by the field each is stored
\* in
CommonFields ==
    {"battery_level", "battery_state", "name", "rf_link_level",
     "rf_link_state", "serial", "model_type"}

\* a group without fragments, a duration attribute that was not received
NoGroup == [types |-> {}, ambientTemperature |-> FALSE, valve_fragments |-> 0]
NoDurationData == [form |-> "absent", value |-> 0, elapsed |-> 0]

\* no attribute
NoAttributes == [k \in {} |-> "N/A"]

\* no fragment waiting to be applied
NoFragment ==
    [type |-> "none", id |-> 0, attributes |-> NoAttributes,
     duration |-> NoDurationData]

\* BaseDevice.__init__ and the constructors of the variants: every field
\* "N/A", no valve
DeviceInit ==
    /\ common = [f \in CommonFields |-> "N/A"]
    /\ activity = "N/A"
    /\ duration = NoValue
    /\ duration_timestamp = "N/A"
    /\ remaining_time = NoValue
    /\ valves = <<>>
    /\ valve_durations = <<>>

\* the answer of a GET that was not sent
NoResponse == [kind |-> "not_asked", data |-> <<>>]

\* the clock at its origin, the field not read
ReadIdle ==
    /\ clock = 0
    /\ read_value = NotComputed
    /\ reads = 0

\* the background setup not modelled, the supervisor not yet waiting
BackgroundIdle ==
    /\ setup_pc = "none"
    /\ devices_loaded = {}
    /\ current_delay = NotComputed

\* no device in any location, no frame dispatched, update_devices not run
NoDevices == [k \in {} |-> 0]
NoFrame == [type |-> "none", id |-> <<>>]
NoDevicesResponse == [kind |-> "none", included |-> <<>>]
NotRun == [done |-> FALSE, location |-> 0, calls |-> <<>>]
TreeIdle ==
    /\ location_devices = [l \in LocationIds |-> NoDevices]
    /\ frame = NoFrame
    /\ on_message_result = "none"
    /\ devices_response = NoDevicesResponse
    /\ update_devices_run = NotRun

\* no REST call made
CallsIdle ==
    /\ response = NoResponse
    /\ update_result = "none"
    /\ service_status = 0
    /\ service_result = "none"
    /\ service_puts = 0

RestIdle ==
    /\ TreeIdle
    /\ CallsIdle

\* no group handed to the factory
FactoryIdle ==
    /\ device_map = NoGroup
    /\ built = "not_built"

\* no device under update
DeviceIdle ==
    /\ variant = "N/A"
    /\ DeviceInit
    /\ fragment = NoFragment

\* no callback registered
NotifyIdle ==
    /\ callbacks = <<>>
    /\ callback_log = <<>>

\* no remaining time computed
RemainingIdle ==
    /\ duration_data = NoDurationData
    /\ base_remaining = NotComputed
    /\ sic_remaining = NotComputed

\* no REST call made, no device built
DataInit ==
    /\ ReadIdle
    /\ RestIdle
    /\ FactoryIdle
    /\ DeviceIdle
    /\ NotifyIdle
    /\ RemainingIdle

Cur == [pc |-> pc, sock |-> sock, connected |-> is_ws_connected,
        attempts |-> connection_attempts, delay |-> delay, slept |-> slept,
        elapsed |-> elapsed, handler |-> handler, exit_reason |-> exit_reason,
        close_then |-> close_then, reconnects |-> reconnect_attempts,
        message |-> message, status |-> status_code,
        notified |-> ws_notified]

SetTask(t) ==
    /\ pc' = t.pc
    /\ sock' = t.sock
    /\ is_ws_connected' = t.connected
    /\ connection_attempts' = t.attempts
    /\ delay' = t.delay
    /\ slept' = t.slept
    /\ elapsed' = t.elapsed
    /\ handler' = t.handler
    /\ exit_reason' = t.exit_reason
    /\ close_then' = t.close_then
    /\ reconnect_attempts' = t.reconnects
    /\ message' = t.message
    /\ status_code' = t.status
    /\ ws_notified' = t.notified

(***************************************************************************)
(* GardenaSmartSystem._managed_websocket_connection, the code around the   *)
(* call of start_ws.                                                       *)
(***************************************************************************)
\* lines 504-522: the wait before the next call of start_ws, or the end of
\* the while loop when the shutdown event is set
managed_backoff(t) ==
    IF ~shutdown_event
    THEN [t EXCEPT !.pc = "sup_wait"]
    ELSE [t EXCEPT !.pc = "completed"]

\* lines 494-498: start_ws returned
managed_after_start_ws(t) ==
    IF shutdown_event
    THEN [t EXCEPT !.pc = "completed"]
    ELSE managed_backoff(t)

\* lines 500-502: start_ws raised an Exception
managed_except(t) ==
    managed_backoff([t EXCEPT !.reconnects = t.reconnects + 1])

(***************************************************************************)
(* SmartSystem.start_ws.                                                   *)
(***************************************************************************)
\* calculate_backoff_delay without the cap of max_backoff
calculate_backoff_delay_no_cap ==
    base_delay * (2 ^ self_connection_attempts)

\* lines 385-387: reads the attribute self.connection_attempts
calculate_backoff_delay ==
    Min(MAX_BACKOFF_VALUE, base_delay * (2 ^ self_connection_attempts))

\* lines 293-302: the while test and the start of one connection attempt
start_ws_loop(t) ==
    IF ~should_stop
    THEN [t EXCEPT !.pc = "negotiate", !.sock = "none", !.elapsed = 0,
                   !.handler = "none", !.exit_reason = "none",
                   !.close_then = "none", !.message = NoMessage,
                   !.status = 0]
    ELSE managed_after_start_ws(t)

\* lines 389-394, entered with the delay of t: the first test of the for loop
wait_with_cancel(t) ==
    IF t.delay >= 1 /\ ~should_stop
    THEN [t EXCEPT !.pc = "sleep", !.slept = 0]
    ELSE start_ws_loop(t)

\* lines 379-383
start_ws_backoff(t) ==
    IF ~should_stop
    THEN wait_with_cancel([t EXCEPT !.delay = calculate_backoff_delay])
    ELSE start_ws_loop(t)

\* lines 577-580: set_ws_status sets the flag and calls the status callback
\* when one is registered
set_ws_status_on_connect_only(t, status) ==
    [t EXCEPT !.connected = status,
              !.notified = IF ws_status_callback /\ status THEN <<status>>
                           ELSE @]
set_ws_status(t, status) ==
    [t EXCEPT !.connected = status,
              !.notified = IF ws_status_callback THEN <<status>> ELSE @]

\* lines 348-377: websocket is the local of start_ws, set only when
\* __launch_websocket_loop returned
start_ws_finally(t, websocket) ==
    [set_ws_status(t, FALSE) EXCEPT
        !.sock = IF websocket /\ t.sock = "open" THEN "closed" ELSE t.sock]

\* lines 303-308: __launch_websocket_loop returned the websocket
start_ws_success(t) ==
    start_ws_backoff(start_ws_finally([t EXCEPT !.attempts = 0], TRUE))

\* CancelledError is a BaseException: no except clause of start_ws takes it,
\* the finally clause runs and the task ends cancelled
start_ws_cancelled(t) ==
    [start_ws_finally(t, FALSE) EXCEPT !.pc = "cancelled"]

\* start_ws_except without the catch-all clause of line 334: the error
\* leaves start_ws through the finally clause
start_ws_except_no_catch_all(t, kind) ==
    LET n == t.attempts + 1 IN
    CASE kind = "conn_closed" ->
            start_ws_backoff(start_ws_finally(
                [t EXCEPT !.attempts = n, !.handler = "conn_closed",
                          !.delay = IF n >= max_consecutive_failures
                                    THEN Min(60, 10 + (n - max_consecutive_failures) * 10)
                                    ELSE 10], FALSE))
      [] kind = "rate_limit" ->
            start_ws_backoff(start_ws_finally(
                [t EXCEPT !.attempts = n, !.handler = "rate_limit",
                          !.delay = calculate_backoff_delay], FALSE))
      [] kind = "attr_closed" ->
            managed_after_start_ws(start_ws_finally(
                [t EXCEPT !.handler = "attr_closed"], FALSE))
      [] OTHER ->
            managed_except(start_ws_finally(t, FALSE))

\* lines 310-346: the except clauses, by the class of the error raised by
\* __get_ws_url or __launch_websocket_loop
start_ws_except(t, kind) ==
    LET n == t.attempts + 1 IN
    CASE kind = "conn_closed" ->
            start_ws_backoff(start_ws_finally(
                [t EXCEPT !.attempts = n, !.handler = "conn_closed",
                          !.delay = IF n >= max_consecutive_failures
                                    THEN Min(60, 10 + (n - max_consecutive_failures) * 10)
                                    ELSE 10], FALSE))
      [] kind = "rate_limit" ->
            start_ws_backoff(start_ws_finally(
                [t EXCEPT !.attempts = n, !.handler = "rate_limit",
                          !.delay = calculate_backoff_delay], FALSE))
      [] kind = "attr_closed" ->
            \* break: the finally clause runs and the while loop is left
            managed_after_start_ws(start_ws_finally(
                [t EXCEPT !.handler = "attr_closed"], FALSE))
      [] OTHER ->
            start_ws_backoff(start_ws_finally(
                [t EXCEPT !.attempts = n, !.handler = "generic",
                          !.delay = Min(30, 5 + n * 2)], FALSE))

(***************************************************************************)
(* SmartSystem.__launch_websocket_loop.                                    *)
(***************************************************************************)
\* how the coroutine is left once the finally clause is through
launch_exit(t, then) ==
    CASE then = "return" -> start_ws_success(t)
      [] then = "cancelled" -> start_ws_cancelled(t)
      [] OTHER -> start_ws_except(t, then)

\* launch_finally without the close() of line 543
launch_finally_no_close(t, then) == launch_exit(t, then)

\* lines 524-545: the probes of lines 526-541 read "closed" as "not open";
\* close() leaves the open state at once and is then awaited
launch_finally(t, then) ==
    IF t.sock = "open"
    THEN [t EXCEPT !.sock = "closed", !.pc = "close", !.close_then = then]
    ELSE launch_exit(t, then)

\* launch_loop without the test of lines 453-458
launch_loop_no_cap(t) ==
    IF should_stop
    THEN launch_finally([t EXCEPT !.exit_reason = "stop"], "return")
    ELSE [t EXCEPT !.pc = "recv"]

\* lines 451-462: the head of the read loop
launch_loop(t) ==
    IF should_stop
    THEN launch_finally([t EXCEPT !.exit_reason = "stop"], "return")
    ELSE IF t.elapsed >= max_connection_duration
         THEN launch_finally([t EXCEPT !.exit_reason = "cap"], "return")
         ELSE [t EXCEPT !.pc = "recv"]

(***************************************************************************)
(* SmartSystem.quit, up to its await of the revoke request.                *)
(***************************************************************************)
\* lines 133-143: the request is sent only when a client and a token exist
quit_posts == has_token

(***************************************************************************)
(* The initial state: a SmartSystem after __init__ (authenticated or not)  *)
(* wrapped by a GardenaSmartSystem after __init__.                         *)
(***************************************************************************)
Construction ==
    /\ pc = "no_task"
    /\ must_cancel = FALSE
    /\ sock = "none"
    /\ is_ws_connected = FALSE
    /\ should_stop = FALSE
    /\ self_connection_attempts = 0
    /\ connection_attempts = 0
    /\ delay = 0
    /\ slept = 0
    /\ elapsed = 0
    /\ handler = "none"
    /\ exit_reason = "none"
    /\ close_then = "none"
    /\ reconnect_attempts = 0
    /\ shutdown_event = FALSE
    /\ stop_pc = "idle"
    /\ stop_calls = 0
    /\ stop_result = "none"
    /\ stop_found_running = FALSE
    /\ revoke_posts = 0
    /\ has_token \in BOOLEAN
    /\ message = NoMessage
    /\ status_code = 0
    /\ locations \in LocationMaps
    /\ task_location = 0
    /\ start_result = "none"
    /\ orphans = 0
    /\ domain_data = {"entry"}
    /\ auth_pc = "idle"
    /\ attempt = 0
    /\ authenticate_calls = 0
    /\ wait_time = 0
    /\ cleanup_wait = 0
    /\ cleanup_runs = 0
    /\ ex = "none"
    /\ DataInit
    /\ BackgroundIdle
    /\ ws_notified = <<>>

\* no platform that is set up registers a status callback: binary_sensor.py
\* line 33 is in a class whose async_setup_entry is overridden at line 85
Init ==
    /\ Construction
    /\ ws_status_callback = FALSE

(***************************************************************************)
(* GardenaSmartSystem.start (__init__.py 452-482).                         *)
(***************************************************************************)
\* first_location taking the location stored last
last_location(locs) == locs[Len(locs)]

\* line 463: next(iter(self.smart_system.locations.values()))
first_location(locs) == Head(locs)

\* lines 458-478: without locations an error is logged and start() returns;
\* otherwise the task is created for the first location and _ws_task is
\* set to it, whatever _ws_task was
start ==
    IF locations = <<>>
    THEN /\ start_result' = "no_locations"
         /\ UNCHANGED <<pc, task_location>>
    ELSE /\ start_result' = "spawned"
         /\ pc' = "created"
         /\ task_location' = first_location(locations)

\* the call of _complete_setup_background (line 293), the only call of
\* start() in the integration: made once, on a wrapper just constructed
Start ==
    /\ pc = "no_task"
    /\ start_result = "none"
    /\ start
    /\ UNCHANGED <<must_cancel, sock, is_ws_connected, connection_attempts,
                   delay, slept, elapsed, handler, exit_reason, close_then,
                   reconnect_attempts, message, status_code, ws_notified>>
    /\ UNCHANGED <<should_stop, self_connection_attempts, shutdown_event,
                   stop_pc, stop_calls, stop_result, stop_found_running,
                   revoke_posts, has_token, locations, orphans, setupvars, datavars>>

(***************************************************************************)
(* The steps of the reconnect task.  A step is taken only when no          *)
(* cancellation is pending: a cancelled task is resumed with               *)
(* CancelledError (DeliverCancel).                                         *)
(***************************************************************************)
TaskAt(p) == pc = p /\ ~must_cancel

\* first run of _managed_websocket_connection: lines 486-493 and the entry
\* of start_ws, lines 287-302
TaskFirstRun ==
    /\ TaskAt("created")
    /\ SetTask(IF shutdown_event
               THEN [Cur EXCEPT !.pc = "completed"]
               ELSE start_ws_loop([Cur EXCEPT !.attempts = 0]))
    /\ UNCHANGED <<must_cancel>>
    /\ UNCHANGED clientvars

\* the answers of the POST to /v2/websocket: the URL, rate limiting,
\* another error status
HttpStatuses == {200, 429, 500}

\* lines 418-424: what __get_ws_url raises for the status of the response
get_ws_url_raises(status) ==
    IF status = 429 THEN "RateLimitException"
    ELSE IF status >= 400 THEN "HTTPStatusError"
    ELSE "none"

\* backoff.on_exception given Exception in place of HTTPStatusError
on_exception_retries_any(exc) == TRUE

\* lines 396-401: backoff.on_exception retries HTTPStatusError and its
\* subclasses; RateLimitException (line 27) derives from Exception
on_exception_retries(exc) == exc = "HTTPStatusError"

\* __get_ws_url, lines 411-428: the POST answered with the URL; connect()
\* is awaited next (line 437)
NegotiateOk ==
    /\ TaskAt("negotiate")
    /\ \E status \in HttpStatuses :
         /\ get_ws_url_raises(status) = "none"
         /\ SetTask([Cur EXCEPT !.pc = "connect", !.status = status])
    /\ UNCHANGED <<must_cancel>>
    /\ UNCHANGED clientvars

\* lines 418-424 raise for the status of the response: an error the
\* decorator retries (no max_tries) has it sleep and call __get_ws_url
\* again, any other leaves __get_ws_url for the except clauses of start_ws
NegotiateHttpError ==
    /\ TaskAt("negotiate")
    /\ \E status \in HttpStatuses :
         LET exc == get_ws_url_raises(status)
             t == [Cur EXCEPT !.status = status]
         IN  /\ exc # "none"
             /\ IF on_exception_retries(exc)
                THEN SetTask([t EXCEPT !.pc = "neg_retry"])
                ELSE /\ connection_attempts < MaxAttempts
                     /\ SetTask(start_ws_except(t,
                            IF exc = "RateLimitException" THEN "rate_limit"
                            ELSE "generic"))
    /\ UNCHANGED <<must_cancel>>
    /\ UNCHANGED clientvars

\* the sleep of the backoff decorator is over: __get_ws_url is called again
\* and the POST is sent
NegotiateRetry ==
    /\ TaskAt("neg_retry")
    /\ SetTask([Cur EXCEPT !.pc = "negotiate", !.elapsed = Later(elapsed, 1),
                           !.status = 0])
    /\ UNCHANGED <<must_cancel>>
    /\ UNCHANGED clientvars

\* the POST itself raises: a token error of the OAuth client, or any other
\* error of the request
NegotiateRaise ==
    /\ TaskAt("negotiate")
    /\ \E kind \in ErrorKinds \ {"rate_limit"} :
         /\ kind # "attr_closed" => connection_attempts < MaxAttempts
         /\ SetTask(start_ws_except(Cur, kind))
    /\ UNCHANGED <<must_cancel>>
    /\ UNCHANGED clientvars

\* connect() returned, lines 437-451: set_ws_status(True), then the head of
\* the read loop
ConnectOk ==
    /\ TaskAt("connect")
    /\ SetTask(launch_loop([set_ws_status(Cur, TRUE) EXCEPT !.sock = "open"]))
    /\ UNCHANGED <<must_cancel>>
    /\ UNCHANGED clientvars

\* connect() raises (line 437 is outside the try of line 450)
ConnectRaise ==
    /\ TaskAt("connect")
    /\ \E kind \in {"conn_closed", "attr_closed", "generic"} :
         /\ kind # "attr_closed" => connection_attempts < MaxAttempts
         /\ SetTask(start_ws_except(Cur, kind))
    /\ UNCHANGED <<must_cancel>>
    /\ UNCHANGED clientvars

\* the server closes the connection
ServerClose ==
    /\ pc = "recv"
    /\ sock = "open"
    /\ sock' = "closed"
    /\ UNCHANGED <<pc, must_cancel, is_ws_connected, connection_attempts, delay,
                   slept, elapsed, handler, exit_reason, close_then,
                   reconnect_attempts, message, status_code, ws_notified>>
    /\ UNCHANGED clientvars

\* lines 462-464: a frame is received and on_message runs; it returns, or
\* raises AttributeError (taken by line 509: logged, the loop is left, the
\* coroutine returns), or raises another Exception (line 518: re-raised)
RecvMessage ==
    /\ TaskAt("recv")
    /\ sock = "open"
    /\ \E m \in Messages, d \in {0, poll_timeout} :
         LET t == [Cur EXCEPT !.elapsed = IF d = 0 THEN elapsed ELSE Later(elapsed, d),
                              !.message = m]
             outcome == on_message(m)
         IN  CASE outcome = "ok" -> SetTask(launch_loop(t))
               [] outcome = "attribute_error" ->
                    SetTask(launch_finally([t EXCEPT !.exit_reason = "attr_error"],
                                           "return"))
               [] OTHER ->
                    /\ connection_attempts < MaxAttempts
                    /\ SetTask(launch_finally([t EXCEPT !.exit_reason = "error"],
                                              "generic"))
    /\ UNCHANGED <<must_cancel>>
    /\ UNCHANGED clientvars

\* lines 466-503: the poll timed out; a connection found not open ends the
\* loop, an open one is polled again
RecvTimeout ==
    /\ TaskAt("recv")
    /\ LET t == [Cur EXCEPT !.elapsed = Later(elapsed, poll_timeout)]
       IN  IF sock # "open"
           THEN SetTask(launch_finally([t EXCEPT !.exit_reason = "dead"], "return"))
           ELSE SetTask(launch_loop(t))
    /\ UNCHANGED <<must_cancel>>
    /\ UNCHANGED clientvars

\* lines 505-507: recv raises ConnectionClosed
RecvConnectionClosed ==
    /\ TaskAt("recv")
    /\ sock = "closed"
    /\ SetTask(launch_finally([Cur EXCEPT !.exit_reason = "server_close"], "return"))
    /\ UNCHANGED <<must_cancel>>
    /\ UNCHANGED clientvars

\* line 543: close() returned (close() of the websockets connection takes
\* ConnectionClosed itself and raises nothing else); the coroutine is left
\* the way it was being left
CloseDone ==
    /\ TaskAt("close")
    /\ SetTask(launch_exit(Cur, close_then))
    /\ UNCHANGED <<must_cancel>>
    /\ UNCHANGED clientvars

\* _wait_with_cancel, lines 391-394: one asyncio.sleep(1) is over
SleepTick ==
    /\ TaskAt("sleep")
    /\ LET t == [Cur EXCEPT !.slept = slept + 1]
       IN  IF t.slept < t.delay /\ ~should_stop
           THEN SetTask(t)
           ELSE SetTask(start_ws_loop(t))
    /\ UNCHANGED <<must_cancel>>
    /\ UNCHANGED clientvars

\* __init__.py 516-522 and 490-493: the wait on the shutdown event ends, by
\* the event (break) or by the timeout (continue: start_ws is called again)
SupervisorWaitEnds ==
    /\ TaskAt("sup_wait")
    /\ SetTask(IF shutdown_event
               THEN [Cur EXCEPT !.pc = "completed"]
               ELSE start_ws_loop([Cur EXCEPT !.attempts = 0]))
    /\ UNCHANGED <<must_cancel>>
    /\ UNCHANGED clientvars

\* the task is resumed with CancelledError at the await it is suspended at
DeliverCancel ==
    /\ must_cancel
    /\ pc \in Running
    /\ must_cancel' = FALSE
    /\ CASE pc \in {"created", "sleep", "sup_wait"} ->
                \* outside the try of start_ws: nothing runs
                SetTask([Cur EXCEPT !.pc = "cancelled"])
         [] pc \in {"negotiate", "neg_retry", "connect"} ->
                SetTask(start_ws_cancelled(Cur))
         [] pc = "recv" ->
                SetTask(launch_finally([Cur EXCEPT !.exit_reason = "cancel"],
                                       "cancelled"))
         [] OTHER ->
                \* pc = "close": CancelledError leaves close() and the finally
                SetTask(start_ws_cancelled(Cur))
    /\ UNCHANGED clientvars

TaskStep ==
    \/ TaskFirstRun
    \/ NegotiateOk
    \/ NegotiateHttpError
    \/ NegotiateRetry
    \/ NegotiateRaise
    \/ ConnectOk
    \/ ConnectRaise
    \/ RecvMessage
    \/ RecvTimeout
    \/ RecvConnectionClosed
    \/ CloseDone
    \/ SleepTick
    \/ SupervisorWaitEnds
    \/ DeliverCancel

(***************************************************************************)
(* GardenaSmartSystem.stop (__init__.py 557-575).                          *)
(***************************************************************************)
\* line 574 and smart_system.py 133-143: quit() sets should_stop and, with a
\* client and a token, awaits the revoke request
StopCallsQuit ==
    /\ should_stop' = TRUE
    /\ IF quit_posts
       THEN /\ revoke_posts' = revoke_posts + 1
            /\ stop_pc' = "revoke"
            /\ UNCHANGED stop_result
       ELSE /\ stop_pc' = "idle"
            /\ stop_result' = "returned"
            /\ UNCHANGED revoke_posts

\* lines 562-569: the event is set and a task that is not done is cancelled
\* and awaited; with no such task quit() is called at once
StopBegin ==
    /\ stop_pc = "idle"
    /\ stop_calls < MaxStopCalls
    /\ stop_calls' = stop_calls + 1
    /\ shutdown_event' = TRUE
    /\ IF pc \in Running
       THEN /\ must_cancel' = TRUE
            /\ stop_pc' = "wait_task"
            /\ stop_found_running' = TRUE
            /\ UNCHANGED <<should_stop, revoke_posts, stop_result>>
       ELSE /\ StopCallsQuit
            /\ UNCHANGED <<must_cancel, stop_found_running>>
    /\ UNCHANGED <<taskvars, self_connection_attempts, has_token, startvars,
                   setupvars, datavars>>

\* line 569: the 10 s of wait_for are over and the task is not done;
\* wait_for cancels the task once more and goes on waiting for it
StopWaitTimeout ==
    /\ stop_pc = "wait_task"
    /\ pc \in Running
    /\ ~must_cancel
    /\ must_cancel' = TRUE
    /\ stop_pc' = "wait_late"
    /\ UNCHANGED <<taskvars, should_stop, self_connection_attempts,
                   shutdown_event, stop_calls, stop_result, stop_found_running,
                   revoke_posts, has_token, startvars, setupvars, datavars>>

\* stop() going on to quit() without awaiting the task
stop_wait_over_at_once == TRUE

\* lines 568-571: wait_for ends when the awaited task is done
stop_wait_over == pc \in Done

\* lines 570-574: the wait is over (CancelledError or TimeoutError, both
\* taken by line 570) and quit() is called
StopTaskDone ==
    /\ stop_pc \in {"wait_task", "wait_late"}
    /\ stop_wait_over
    /\ StopCallsQuit
    /\ UNCHANGED <<taskvars, must_cancel, self_connection_attempts,
                   shutdown_event, stop_calls, stop_found_running, has_token,
                   startvars, setupvars, datavars>>

\* smart_system.py 137-143: the revoke request is answered, or fails with an
\* error that quit() and stop() let through
RevokeAnswered ==
    /\ stop_pc = "revoke"
    /\ stop_pc' = "idle"
    /\ \E ok \in BOOLEAN : stop_result' = IF ok THEN "returned" ELSE "raised"
    /\ UNCHANGED <<taskvars, must_cancel, should_stop, self_connection_attempts,
                   shutdown_event, stop_calls, stop_found_running, revoke_posts,
                   has_token, startvars, setupvars, datavars>>

(***************************************************************************)
(* The status properties of GardenaSmartSystem (__init__.py 535-555).      *)
(* _ws_task is None until start() creates the task; Task.cancelled() holds *)
(* of a task ended by CancelledError, Task.done() of every ended task,     *)
(* Task.exception() is not None for a task ended by another exception.     *)
(***************************************************************************)
\* lines 536-542
is_websocket_connected ==
    pc # "no_task" /\ pc \notin Done /\ is_ws_connected

\* websocket_task_status testing done() before cancelled()
websocket_task_status_done_first ==
    IF pc = "no_task" THEN "not_started"
    ELSE IF pc \in Done
         THEN IF pc = "failed" THEN "failed" ELSE "completed"
         ELSE IF pc = "cancelled" THEN "cancelled" ELSE "running"

\* lines 545-555; "failed" stands for the strings "failed: <reason>"
websocket_task_status ==
    IF pc = "no_task" THEN "not_started"
    ELSE IF pc = "cancelled" THEN "cancelled"
    ELSE IF pc \in Done
         THEN IF pc = "failed" THEN "failed" ELSE "completed"
         ELSE "running"

(***************************************************************************)
(* SmartSystem.quit called on the client itself, not through stop():       *)
(* async_unload_entry (__init__.py 377-382) and the cleanup of             *)
(* _authenticate_with_retry (__init__.py 100-105).  A further call changes *)
(* nothing but the number of revoke requests.                              *)
(***************************************************************************)
ClientQuit ==
    /\ ~should_stop
    /\ should_stop' = TRUE
    /\ revoke_posts' = IF quit_posts THEN revoke_posts + 1 ELSE revoke_posts
    /\ UNCHANGED <<taskvars, must_cancel, self_connection_attempts,
                   shutdown_event, stop_pc, stop_calls, stop_result,
                   stop_found_running, has_token, startvars, setupvars, datavars>>

Next ==
    \/ Start
    \/ TaskStep
    \/ ServerClose
    \/ StopBegin
    \/ StopWaitTimeout
    \/ StopTaskDone
    \/ RevokeAnswered
    \/ ClientQuit

Spec == Init /\ [][Next]_vars

\* lines 574-575: a client of the library has registered a status callback
\* with add_ws_status_callback before the websocket is started
StatusInit ==
    /\ Construction
    /\ ws_status_callback = TRUE

StatusSpec == StatusInit /\ [][Next]_vars

(***************************************************************************)
(* GardenaSmartSystem under any sequence of start() and stop() calls: a    *)
(* caller that awaits each call may call start() again once a call has     *)
(* returned.  start() sets _ws_task to the new task and neither cancels    *)
(* nor awaits the task _ws_task referred to, which runs on against the     *)
(* same client; such a task is counted, and of what it does only its       *)
(* writes of the client's flag are kept.                                   *)
(***************************************************************************)
\* the reconnect-loop tasks that are not done
RunningTasks == orphans + (IF pc \in Running THEN 1 ELSE 0)

\* __init__.py 452-482, on a wrapper start() was called on before
StartAgain ==
    /\ start_result # "none"
    /\ stop_pc = "idle"
    /\ pc \in Running => orphans < MaxOrphans
    /\ start
    /\ IF locations = <<>>
       THEN UNCHANGED <<orphans, sock, connection_attempts, delay, slept,
                        elapsed, handler, exit_reason, close_then,
                        reconnect_attempts, message, status_code>>
       ELSE /\ orphans' = IF pc \in Running THEN orphans + 1 ELSE orphans
            /\ sock' = "none"
            /\ connection_attempts' = 0
            /\ delay' = 0
            /\ slept' = 0
            /\ elapsed' = 0
            /\ handler' = "none"
            /\ exit_reason' = "none"
            /\ close_then' = "none"
            /\ reconnect_attempts' = 0
            /\ message' = NoMessage
            /\ status_code' = 0
    /\ UNCHANGED <<must_cancel, is_ws_connected, ws_notified, should_stop,
                   self_connection_attempts, shutdown_event, stop_pc,
                   stop_calls, stop_result, stop_found_running, revoke_posts,
                   has_token, locations, setupvars, datavars>>

\* smart_system.py 447 and 350-352 run by a task _ws_task does not refer to:
\* set_ws_status(True) after its connect(), set_ws_status(False) in its
\* finally clause
OrphanSetsStatus ==
    /\ orphans > 0
    /\ is_ws_connected' = ~is_ws_connected
    /\ ws_notified' = IF ws_status_callback THEN <<~is_ws_connected>>
                      ELSE ws_notified
    /\ UNCHANGED <<pc, must_cancel, sock, connection_attempts, delay, slept,
                   elapsed, handler, exit_reason, close_then,
                   reconnect_attempts, message, status_code>>
    /\ UNCHANGED clientvars

\* __init__.py 490-524 run by such a task: nothing cancels it, and it
\* leaves its while loop only with the shutdown event set
OrphanEnds ==
    /\ orphans > 0
    /\ shutdown_event
    /\ orphans' = orphans - 1
    /\ UNCHANGED <<taskvars, must_cancel, should_stop, self_connection_attempts,
                   shutdown_event, stop_pc, stop_calls, stop_result,
                   stop_found_running, revoke_posts, has_token, locations,
                   task_location, start_result, setupvars, datavars>>

ApiNext ==
    \/ Next
    \/ StartAgain
    \/ OrphanSetsStatus
    \/ OrphanEnds

ApiSpec == Init /\ [][ApiNext]_vars

(***************************************************************************)
(* calculate_backoff_delay as a function of the attribute it reads: a      *)
(* client whose attempt count is anything from 0 up, a caller that counts  *)
(* an attempt and a caller that takes the delay (as start_ws line 380      *)
(* does, into its local delay).                                            *)
(***************************************************************************)
BackoffInit ==
    /\ self_connection_attempts \in 0 .. MaxBackoffAttempts
    /\ pc = "no_task"
    /\ must_cancel = FALSE
    /\ sock = "none"
    /\ is_ws_connected = FALSE
    /\ should_stop = FALSE
    /\ connection_attempts = 0
    /\ delay = 0
    /\ slept = 0
    /\ elapsed = 0
    /\ handler = "none"
    /\ exit_reason = "none"
    /\ close_then = "none"
    /\ reconnect_attempts = 0
    /\ shutdown_event = FALSE
    /\ stop_pc = "idle"
    /\ stop_calls = 0
    /\ stop_result = "none"
    /\ stop_found_running = FALSE
    /\ revoke_posts = 0
    /\ has_token \in BOOLEAN
    /\ message = NoMessage
    /\ status_code = 0
    /\ locations \in LocationMaps
    /\ task_location = 0
    /\ start_result = "none"
    /\ orphans = 0
    /\ domain_data = {"entry"}
    /\ auth_pc = "idle"
    /\ attempt = 0
    /\ authenticate_calls = 0
    /\ wait_time = 0
    /\ cleanup_wait = 0
    /\ cleanup_runs = 0
    /\ ex = "none"
    /\ DataInit
    /\ BackgroundIdle
    /\ ws_status_callback = FALSE
    /\ ws_notified = <<>>

\* delay = self.calculate_backoff_delay()
BackoffCall ==
    /\ delay' = calculate_backoff_delay
    /\ UNCHANGED <<pc, must_cancel, sock, is_ws_connected, connection_attempts,
                   slept, elapsed, handler, exit_reason, close_then,
                   reconnect_attempts, message, status_code, ws_notified>>
    /\ UNCHANGED clientvars

\* one more attempt counted in the attribute
BackoffCount ==
    /\ self_connection_attempts < MaxBackoffAttempts
    /\ self_connection_attempts' = self_connection_attempts + 1
    /\ UNCHANGED <<taskvars, must_cancel, should_stop, shutdown_event, stop_pc,
                   stop_calls, stop_result, stop_found_running, revoke_posts,
                   has_token, startvars, setupvars, datavars>>

BackoffNext ==
    \/ BackoffCall
    \/ BackoffCount

BackoffSpec == BackoffInit /\ [][BackoffNext]_vars

(***************************************************************************)
(* _authenticate_with_retry (__init__.py 84-173) as awaited by             *)
(* _complete_setup_background (lines 243-248, 296-304).  hass.data[DOMAIN] *)
(* holds the client of the entry (stored at line 238, before the           *)
(* authentication) and may hold another SmartSystem and a                  *)
(* GardenaSmartSystem of an earlier setup; the client has no locations     *)
(* yet.                                                                    *)
(***************************************************************************)
max_retries == 3
base_wait_time == 15

\* the wait after a conflict, whatever the attempt
auth_wait_time_flat(i) == base_wait_time

\* line 132
auth_wait_time(i) == base_wait_time + (i * 10)

\* line 108
auth_cleanup_wait(i) == 5 + (i * 5)

AuthConstruction ==
    /\ pc = "no_task"
    /\ must_cancel = FALSE
    /\ sock = "none"
    /\ is_ws_connected = FALSE
    /\ should_stop = FALSE
    /\ self_connection_attempts = 0
    /\ connection_attempts = 0
    /\ delay = 0
    /\ slept = 0
    /\ elapsed = 0
    /\ handler = "none"
    /\ exit_reason = "none"
    /\ close_then = "none"
    /\ reconnect_attempts = 0
    /\ shutdown_event = FALSE
    /\ stop_pc = "idle"
    /\ stop_calls = 0
    /\ stop_result = "none"
    /\ stop_found_running = FALSE
    /\ revoke_posts = 0
    /\ has_token \in BOOLEAN
    /\ message = NoMessage
    /\ status_code = 0
    /\ locations = <<>>
    /\ task_location = 0
    /\ start_result = "none"
    /\ orphans = 0
    /\ domain_data \in {{"entry"} \cup d : d \in SUBSET {"other_client", "wrapper"}}
    /\ auth_pc = "idle"
    /\ attempt = 0
    /\ authenticate_calls = 0
    /\ wait_time = 0
    /\ cleanup_wait = 0
    /\ cleanup_runs = 0
    /\ ex = "none"
    /\ DataInit
    /\ ws_status_callback = FALSE
    /\ ws_notified = <<>>

\* the call of _authenticate_with_retry on its own, the rest of the setup
\* left out
AuthInit == AuthConstruction /\ BackgroundIdle

\* what no step of _authenticate_with_retry writes
authframe ==
    <<taskvars, must_cancel, self_connection_attempts, shutdown_event, stop_pc,
      stop_calls, stop_result, stop_found_running, has_token, startvars,
      datavars>>

\* lines 91-115 with attempt = 0: no cleanup, authenticate() is awaited
AuthBegin ==
    /\ auth_pc = "idle"
    /\ auth_pc' = "authenticate"
    /\ attempt' = 0
    /\ authenticate_calls' = authenticate_calls + 1
    /\ UNCHANGED <<domain_data, wait_time, cleanup_wait, cleanup_runs, ex,
                   should_stop, revoke_posts>>
    /\ UNCHANGED authframe

\* lines 115-117: authenticate() returned
AuthenticateReturns ==
    /\ auth_pc = "authenticate"
    /\ auth_pc' = "returned"
    /\ UNCHANGED <<domain_data, attempt, authenticate_calls, wait_time,
                   cleanup_wait, cleanup_runs, ex, should_stop, revoke_posts>>
    /\ UNCHANGED authframe

\* lines 119-173: authenticate() raised, with a message that names a
\* simultaneous login or with another one; a re-raised error is taken by
\* line 296, which removes the client of the entry from hass.data
AuthenticateRaises ==
    /\ auth_pc = "authenticate"
    /\ \E error \in {"conflict", "other"} :
         /\ ex' = error
         /\ IF error = "conflict" /\ attempt < max_retries - 1
            THEN /\ wait_time' = auth_wait_time(attempt)
                 /\ auth_pc' = "wait"
                 /\ UNCHANGED domain_data
            ELSE /\ auth_pc' = "raised"
                 /\ domain_data' = domain_data \ {"entry"}
                 /\ UNCHANGED wait_time
    /\ UNCHANGED <<attempt, authenticate_calls, cleanup_wait, cleanup_runs,
                   should_stop, revoke_posts>>
    /\ UNCHANGED authframe

\* lines 148-149 and 91-112: the wait is over and the next iteration runs
\* its cleanup.  _check_and_cleanup_existing_sessions (38-81) calls quit()
\* or stop() on every value of hass.data[DOMAIN] and removes those whose
\* call returned; then quit() is called on the client (errors taken by
\* line 104) and the cleanup wait is slept
AuthWaitOver ==
    /\ auth_pc = "wait"
    /\ attempt' = attempt + 1
    /\ ex' = "none"
    /\ cleanup_runs' = cleanup_runs + 1
    /\ \E kept \in SUBSET domain_data :
         /\ "entry" \in kept => quit_posts
         /\ domain_data' = kept
    /\ should_stop' = TRUE
    /\ revoke_posts' = revoke_posts
                         + (IF "entry" \in domain_data /\ quit_posts THEN 1 ELSE 0)
                         + (IF quit_posts THEN 1 ELSE 0)
    /\ cleanup_wait' = auth_cleanup_wait(attempt + 1)
    /\ auth_pc' = "cleanup_sleep"
    /\ UNCHANGED <<authenticate_calls, wait_time>>
    /\ UNCHANGED authframe

\* lines 112-115: the cleanup wait is over, authenticate() is awaited
AuthCleanupOver ==
    /\ auth_pc = "cleanup_sleep"
    /\ auth_pc' = "authenticate"
    /\ authenticate_calls' = authenticate_calls + 1
    /\ UNCHANGED <<domain_data, attempt, wait_time, cleanup_wait, cleanup_runs,
                   ex, should_stop, revoke_posts>>
    /\ UNCHANGED authframe

\* lines 245-248 and 296-304: the 120 s of wait_for are over while
\* _authenticate_with_retry is suspended; it is cancelled and the
\* TimeoutError is taken by line 296
AuthTimeout ==
    /\ auth_pc \in {"authenticate", "wait", "cleanup_sleep"}
    /\ auth_pc' = "timed_out"
    /\ domain_data' = domain_data \ {"entry"}
    /\ UNCHANGED <<attempt, authenticate_calls, wait_time, cleanup_wait,
                   cleanup_runs, ex, should_stop, revoke_posts>>
    /\ UNCHANGED authframe

AuthNext ==
    \/ AuthBegin
    \/ AuthenticateReturns
    \/ AuthenticateRaises
    \/ AuthWaitOver
    \/ AuthCleanupOver
    \/ AuthTimeout

AuthSpec == AuthInit /\ [][AuthNext]_vars

(***************************************************************************)
(* The REST calls of SmartSystem: update_locations and                     *)
(* call_smart_system_service (smart_system.py).                            *)
(***************************************************************************)
\* an entry of the member "data" of the answer: the id it carries, and
\* whether it has the members Location reads
Entries == [id : LocationIds, well_formed : BOOLEAN]

\* what __call_smart_system_get can hand to update_locations:
\*   get_raises  the GET raised (timeout, 401, error status)
\*   none        None (line 208 or a body that is JSON null)
\*   no_data     a JSON object without the member "data"
\*   data        a JSON object with the list "data"
Responses ==
    {[kind |-> k, data |-> <<>>] : k \in {"get_raises", "none", "no_data"}}
        \cup {[kind |-> "data", data |-> d] :
                  d \in UNION {[1 .. n -> Entries] : n \in 0 .. MaxEntries}}

\* Location(self, location) followed by update_location_data(location): the
\* id of the location built, 0 when the entry lacks a member they read and
\* the construction raises
Location(e) == IF e.well_formed THEN e.id ELSE 0

\* self.locations[new_location.id] = new_location on a dict: a key that is
\* there keeps its place
locations_setitem(m, id) ==
    IF \E i \in DOMAIN m : m[i] = id THEN m ELSE Append(m, id)

\* lines 242-245: the loop over response_data["data"], filling m until an
\* entry raises
RECURSIVE fill_locations(_, _)
fill_locations(m, data) ==
    IF data = <<>> THEN [locations |-> m, raised |-> FALSE]
    ELSE IF Location(Head(data)) = 0 THEN [locations |-> m, raised |-> TRUE]
    ELSE fill_locations(locations_setitem(m, Location(Head(data))), Tail(data))

\* lines 227-257: the map and the outcome of update_locations for the answer
\* r, old being self.locations at the call
update_locations(old, r) ==
    CASE r.kind = "get_raises" ->
             [locations |-> old, result |-> "ConnectionError"]
      [] r.kind = "none" ->
             [locations |-> old, result |-> "ConnectionError"]
      [] r.kind = "no_data" \/ (r.kind = "data" /\ Len(r.data) < 1) ->
             [locations |-> old, result |-> "ConnectionError"]
      [] OTHER ->
             LET f == fill_locations(<<>>, r.data)
             IN  [locations |-> f.locations,
                  result |-> IF f.raised THEN "ConnectionError" ELSE "returned"]

\* one call of update_locations, from the call to its return or raise; the
\* only await is the GET, so no other coroutine runs inside the loop
UpdateLocations ==
    /\ \E r \in Responses :
          /\ response' = r
          /\ locations' = update_locations(locations, r).locations
          /\ update_result' = update_locations(locations, r).result
    /\ UNCHANGED <<taskvars, wrappervars, treevars, readvars, backgroundvars,
                   service_status, service_result,
                   service_puts, factoryvars, devicevars, notifyvars,
                   remainingvars>>

\* what the command endpoint can answer: a status and whether the body has
\* the member errors[0].title; status 0 is a PUT that got no answer
ServiceStatuses == {0, 200, 202, 400, 500}

\* line 160: is the answer of the PUT an error
service_failed_200_ok(status) == status \notin {200, 202}
service_failed(status) == status # 202

\* lines 148-176: how call_smart_system_service ends for the answer of its
\* PUT
call_smart_system_service(status, has_errors) ==
    CASE status = 0 -> "ConnectionError"
      [] service_failed(status) ->
             IF has_errors THEN "ConnectionError" ELSE "KeyError"
      [] OTHER -> "returned"

\* one call of call_smart_system_service: no decorator and no loop, so the
\* PUT of line 155 is sent once
CallService ==
    /\ \E status \in ServiceStatuses, has_errors \in BOOLEAN :
          /\ service_status' = status
          /\ service_result' = call_smart_system_service(status, has_errors)
    /\ service_puts' = 1
    /\ UNCHANGED <<taskvars, wrappervars, treevars, readvars, backgroundvars,
                   locations, response, update_result,
                   factoryvars, devicevars, notifyvars, remainingvars>>

\* no task, no stop() call and no authentication under way, the client
\* authenticated
TaskIdle ==
    /\ pc = "no_task"
    /\ must_cancel = FALSE
    /\ sock = "none"
    /\ is_ws_connected = FALSE
    /\ should_stop = FALSE
    /\ self_connection_attempts = 0
    /\ connection_attempts = 0
    /\ delay = 0
    /\ slept = 0
    /\ elapsed = 0
    /\ handler = "none"
    /\ exit_reason = "none"
    /\ close_then = "none"
    /\ reconnect_attempts = 0
    /\ shutdown_event = FALSE
    /\ stop_pc = "idle"
    /\ stop_calls = 0
    /\ stop_result = "none"
    /\ stop_found_running = FALSE
    /\ revoke_posts = 0
    /\ has_token = TRUE
    /\ message = NoMessage
    /\ status_code = 0
    /\ task_location = 0
    /\ start_result = "none"
    /\ orphans = 0
    /\ domain_data = {"entry"}
    /\ auth_pc = "idle"
    /\ attempt = 0
    /\ authenticate_calls = 0
    /\ wait_time = 0
    /\ cleanup_wait = 0
    /\ cleanup_runs = 0
    /\ ex = "none"
    /\ ws_status_callback = FALSE
    /\ ws_notified = <<>>
    /\ ReadIdle
    /\ BackgroundIdle

RestInit ==
    /\ TaskIdle
    /\ locations \in LocationMaps
    /\ DataInit

RestNext ==
    \/ UpdateLocations
    \/ CallService

RestSpec == RestInit /\ [][RestNext]_vars

(***************************************************************************)
(* Remaining time of a timed operation (base_device.py,                    *)
(* smart_irrigation_control.py).  A duration attribute is the record       *)
(* form/value/elapsed: which members it has, its value in seconds, and the *)
(* time from its timestamp to the instant it is processed, in half seconds *)
(* so that the rounding of the code shows.                                 *)
(***************************************************************************)
DurationForms == {"full", "no_value", "no_timestamp", "bad_timestamp"}

DurationInputs ==
    [form : DurationForms, value : 0 .. MaxDuration,
     elapsed : 0 .. 2 * MaxDuration + 2]

\* int() of a time given in half seconds (not negative)
whole_seconds(h) == h \div 2

\* lines 79-108 of base_device.py
calculate_remaining_time_no_floor(dd) ==
    IF dd.form \in {"no_value", "no_timestamp"} THEN NoValue
    ELSE IF dd.value <= 0 THEN NoValue
    ELSE IF dd.form = "bad_timestamp" THEN NoValue
    ELSE (2 * dd.value - dd.elapsed) \div 2
calculate_remaining_time(dd) ==
    IF dd.form \in {"no_value", "no_timestamp"} THEN NoValue
    ELSE IF dd.value <= 0 THEN NoValue
    ELSE IF dd.form = "bad_timestamp" THEN NoValue
    ELSE whole_seconds(Max(0, 2 * dd.value - dd.elapsed))

\* lines 128-170 of smart_irrigation_control.py: remaining_seconds of a
\* duration attribute with value and timestamp, 0 when fromisoformat raises
sic_remaining_seconds(dd) ==
    IF dd.form = "bad_timestamp" THEN 0
    ELSE Max(0, dd.value - whole_seconds(dd.elapsed))

CalculateBase ==
    /\ base_remaining' = calculate_remaining_time(duration_data)
    /\ UNCHANGED <<taskvars, wrappervars, treevars, readvars, backgroundvars,
                   locations, restvars, factoryvars,
                   devicevars, notifyvars, duration_data, sic_remaining>>

\* the branch of lines 115-120 is taken for an attribute with value and
\* timestamp
CalculateSic ==
    /\ duration_data.form \in {"full", "bad_timestamp"}
    /\ sic_remaining' = sic_remaining_seconds(duration_data)
    /\ UNCHANGED <<taskvars, wrappervars, treevars, readvars, backgroundvars,
                   locations, restvars, factoryvars,
                   devicevars, notifyvars, duration_data, base_remaining>>

RemainingInit ==
    /\ TaskIdle
    /\ locations = <<>>
    /\ RestIdle
    /\ FactoryIdle
    /\ DeviceIdle
    /\ NotifyIdle
    /\ duration_data \in DurationInputs
    /\ base_remaining = NotComputed
    /\ sic_remaining = NotComputed

RemainingNext ==
    \/ CalculateBase
    \/ CalculateSic

RemainingSpec == RemainingInit /\ [][RemainingNext]_vars

(***************************************************************************)
(* DeviceFactory.build (device_factory.py).  A group is what update_devices*)
(* collects for one device id: the service types it has fragments of,      *)
(* whether the first SENSOR fragment has the attribute ambientTemperature, *)
(* and the number of VALVE fragments.                                      *)
(***************************************************************************)
\* SmartSystem.supported_services: the types update_devices keeps
ServiceTypes ==
    {"COMMON", "VALVE", "VALVE_SET", "SENSOR", "MOWER", "POWER_SOCKET",
     "DEVICE"}

\* the groups of update_devices; a device of the API that has a service of
\* its own has the service COMMON too, which every constructor reads
Groups ==
    {g \in [types : SUBSET ServiceTypes, ambientTemperature : BOOLEAN,
            valve_fragments : 0 .. MaxValves] :
        /\ g.ambientTemperature => "SENSOR" \in g.types
        /\ g.valve_fragments >= 1 <=> "VALVE" \in g.types
        /\ g.types \cap {"MOWER", "SENSOR", "POWER_SOCKET", "VALVE"} # {}
              => "COMMON" \in g.types}

\* lines 11-24: the class build constructs for the group g, "None" when it
\* constructs none
build_sensor_first(g) ==
    IF "SENSOR" \in g.types
    THEN IF g.ambientTemperature THEN "Sensor" ELSE "SoilSensor"
    ELSE IF "MOWER" \in g.types THEN "Mower"
    ELSE IF "POWER_SOCKET" \in g.types THEN "PowerSocket"
    ELSE IF "VALVE" \in g.types
    THEN IF g.valve_fragments > 1 THEN "SmartIrrigationControl"
         ELSE "WaterControl"
    ELSE "None"
build(g) ==
    IF "MOWER" \in g.types THEN "Mower"
    ELSE IF "SENSOR" \in g.types
    THEN IF g.ambientTemperature THEN "Sensor" ELSE "SoilSensor"
    ELSE IF "POWER_SOCKET" \in g.types THEN "PowerSocket"
    ELSE IF "VALVE" \in g.types
    THEN IF g.valve_fragments > 1 THEN "SmartIrrigationControl"
         ELSE "WaterControl"
    ELSE "None"

\* update_devices hands the next group to the factory
NextGroup ==
    /\ built # "not_built"
    /\ device_map' \in Groups
    /\ built' = "not_built"
    /\ UNCHANGED <<taskvars, wrappervars, treevars, readvars, backgroundvars,
                   locations, restvars, devicevars,
                   notifyvars, remainingvars>>

Build ==
    /\ built = "not_built"
    /\ built' = build(device_map)
    /\ UNCHANGED <<taskvars, wrappervars, treevars, readvars, backgroundvars,
                   locations, restvars, device_map,
                   devicevars, notifyvars, remainingvars>>

FactoryInit ==
    /\ TaskIdle
    /\ locations \in LocationMaps \ {<<>>}
    /\ RestIdle
    /\ device_map \in Groups
    /\ built = "not_built"
    /\ DeviceIdle
    /\ NotifyIdle
    /\ RemainingIdle

FactoryNext ==
    \/ Build
    \/ NextGroup

FactorySpec == FactoryInit /\ [][FactoryNext]_vars

(***************************************************************************)
(* The devices (devices/base_device.py, mower.py, power_socket.py,         *)
(* water_control.py, smart_irrigation_control.py).  One device is under    *)
(* update.  A fragment is the record type/id/attributes/duration: its      *)
(* service type, the valve it is about (VALVE fragments of a               *)
(* SmartIrrigationControl), the attributes it carries other than the       *)
(* duration, by the name of the field each is stored in, and its duration  *)
(* attribute.                                                              *)
(***************************************************************************)
Variants ==
    {"MOWER", "POWER_SOCKET", "WATER_CONTROL", "SMART_IRRIGATION_CONTROL"}

ValveIds == 1 .. MaxValves

\* the fragment type whose attributes the variant v stores
specific_type(v) ==
    CASE v = "MOWER" -> "MOWER"
      [] v = "POWER_SOCKET" -> "POWER_SOCKET"
      [] OTHER -> "VALVE"

\* lines 110-113 and 248-251 of smart_irrigation_control.py
WateringActivities == {"MANUAL_WATERING", "SCHEDULED_WATERING"}

\* values of the attribute activity, a running timed operation first
ActivityValues(v) ==
    CASE v = "MOWER" -> {"OK_CUTTING", "PARKED_TIMER"}
      [] v = "POWER_SOCKET" -> {"TIME_LIMITED_ON", "OFF"}
      [] OTHER -> WateringActivities \cup {"CLOSED"}

ValveFields == {"activity", "last_error_code", "name", "state"}

\* the fields of the device
Dev ==
    [common |-> common, activity |-> activity, duration |-> duration,
     duration_timestamp |-> duration_timestamp,
     remaining_time |-> remaining_time, valves |-> valves,
     valve_durations |-> valve_durations]

SetDevice(d) ==
    /\ common' = d.common
    /\ activity' = d.activity
    /\ duration' = d.duration
    /\ duration_timestamp' = d.duration_timestamp
    /\ remaining_time' = d.remaining_time
    /\ valves' = d.valves
    /\ valve_durations' = d.valve_durations

\* base_device.py lines 53-58: the field keeps old unless the fragment has
\* the attribute
set_attribute_value_or_reset(old, f, k) ==
    IF k \in DOMAIN f.attributes THEN f.attributes[k] ELSE "N/A"
set_attribute_value(old, f, k) ==
    IF k \in DOMAIN f.attributes THEN f.attributes[k] ELSE old

\* base_device.py lines 43-51
update_common_data(d, f) ==
    [d EXCEPT !.common =
        [k \in CommonFields |-> set_attribute_value(d.common[k], f, k)]]

\* base_device.py lines 60-77
set_duration_attributes(d, f) ==
    LET dd == f.duration
    IN  IF dd.form = "absent" THEN d
        ELSE [d EXCEPT
                 !.duration = IF dd.form = "no_value" THEN NoValue
                              ELSE dd.value,
                 !.duration_timestamp =
                     IF dd.form = "no_timestamp" THEN "N/A" ELSE "ts",
                 !.remaining_time = calculate_remaining_time(dd)]

\* mower.py lines 31-39, power_socket.py lines 28-35, water_control.py
\* lines 33-41: the activity, then the duration attribute
update_timed_device(d, f) ==
    set_duration_attributes(
        [d EXCEPT !.activity = set_attribute_value(d.activity, f, "activity")],
        f)

\* smart_irrigation_control.py lines 26-34
set_valves_map_value(f, k) ==
    IF k \in DOMAIN f.attributes THEN f.attributes[k] ELSE "N/A"

\* lines 46 and 68-82: the entry of the valve is made anew from the fragment
valve_entry(f) == [k \in ValveFields |-> set_valves_map_value(f, k)]

\* lines 105-113 and 231-251: a missing activity counts as CLOSED
is_valve_active(f) ==
    /\ "activity" \in DOMAIN f.attributes
    /\ f.attributes["activity"] \in WateringActivities

\* valve_durations is a dict; its records are kept in insertion order
duration_index(vds, id) ==
    IF \E i \in DOMAIN vds : vds[i].id = id
    THEN CHOOSE i \in DOMAIN vds : vds[i].id = id
    ELSE 0

\* a record of valve_durations; its timestamp is "N/A", "ts" for the
\* timestamp of a duration attribute, or "local" for the clock the device
\* read, which is then in since
ClearedDuration(id) ==
    [id |-> id, duration |-> 0, timestamp |-> "N/A", since |-> 0,
     remaining_time |-> 0, was_active |-> FALSE]

duration_record(vds, id) ==
    IF duration_index(vds, id) = 0 THEN ClearedDuration(id)
    ELSE vds[duration_index(vds, id)]

put_duration(vds, r) ==
    IF duration_index(vds, r.id) = 0 THEN Append(vds, r)
    ELSE [vds EXCEPT ![duration_index(vds, r.id)] = r]

\* lines 99-210: the fragment has a duration attribute
api_duration(d, f) ==
    LET dd == f.duration
    IN  IF dd.form \in {"full", "bad_timestamp"} /\ is_valve_active(f)
        THEN IF dd.form = "bad_timestamp"
             THEN [d EXCEPT !.duration = dd.value,
                            !.duration_timestamp = "ts",
                            !.remaining_time = 0]
             ELSE [d EXCEPT
                      !.duration = dd.value,
                      !.duration_timestamp = "ts",
                      !.remaining_time = sic_remaining_seconds(dd),
                      !.valve_durations =
                          put_duration(@,
                              [id |-> f.id, duration |-> dd.value,
                               timestamp |-> "ts", since |-> 0,
                               remaining_time |-> sic_remaining_seconds(dd),
                               was_active |-> TRUE])]
        ELSE IF dd.form \in {"full", "bad_timestamp"}
        THEN [d EXCEPT !.duration = 0,
                       !.duration_timestamp = "N/A",
                       !.remaining_time = 0,
                       !.valve_durations = put_duration(@, ClearedDuration(f.id))]
        ELSE set_duration_attributes(d, f)

\* lines 301-311: the whole seconds from the timestamp of the record r to
\* now; for the timestamp of a duration attribute the fragment says how far
\* back it is
elapsed_seconds(r, f) ==
    IF r.timestamp = "local" THEN whole_seconds(clock - r.since)
    ELSE whole_seconds(f.duration.elapsed)

\* lines 253-316: the record of the valve after the fragment, r being the
\* record before it
track_locally_restamp(r, f) ==
    CASE is_valve_active(f) ->
             [r EXCEPT !.timestamp = "local", !.since = clock,
                       !.duration = 0,
                       !.remaining_time = IF r.was_active
                                          THEN elapsed_seconds(r, f) ELSE 0,
                       !.was_active = TRUE]
      [] ~is_valve_active(f) /\ r.was_active -> ClearedDuration(r.id)
      [] OTHER -> r
track_locally(r, f) ==
    CASE is_valve_active(f) /\ ~r.was_active ->
             [r EXCEPT !.timestamp = "local", !.since = clock,
                       !.duration = 0, !.remaining_time = 0,
                       !.was_active = TRUE]
      [] ~is_valve_active(f) /\ r.was_active -> ClearedDuration(r.id)
      [] is_valve_active(f) /\ r.was_active /\ r.timestamp # "N/A" ->
             [r EXCEPT !.remaining_time = elapsed_seconds(r, f)]
      [] OTHER -> r

\* lines 318-332: the device-level fields follow the first record that is
\* active
device_level(d) ==
    LET vds == d.valve_durations
        act == {i \in DOMAIN vds : vds[i].was_active}
    IN  IF act = {}
        THEN [d EXCEPT !.duration = 0, !.duration_timestamp = "N/A",
                       !.remaining_time = 0]
        ELSE LET a == vds[CHOOSE i \in act : \A j \in act : i <= j]
             IN  [d EXCEPT !.duration = a.duration,
                           !.duration_timestamp = a.timestamp,
                           !.remaining_time = a.remaining_time]

\* lines 229-332: the fragment has no duration attribute
local_tracking(d, f) ==
    device_level(
        [d EXCEPT !.valve_durations =
            put_duration(@, track_locally(duration_record(@, f.id), f))])

\* smart_irrigation_control.py lines 44-332: a VALVE fragment
update_valve(d, f) ==
    LET d1 == [d EXCEPT !.valves =
                  [i \in DOMAIN d.valves \cup {f.id} |->
                      IF i = f.id THEN valve_entry(f) ELSE d.valves[i]]]
    IN  IF f.duration.form # "absent" THEN api_duration(d1, f)
        ELSE local_tracking(d1, f)

\* update_device_specific_data of the variant v
update_device_specific_data(v, d, f) ==
    IF f.type # specific_type(v) THEN d
    ELSE IF v = "SMART_IRRIGATION_CONTROL" THEN update_valve(d, f)
    ELSE update_timed_device(d, f)

\* base_device.py lines 40-41: what each callback is called with
run_callbacks(cbs, d) ==
    [i \in DOMAIN cbs |-> [callback |-> cbs[i], saw |-> d]]

\* base_device.py lines 35-41: the device after the fragment, and the calls
\* of the callbacks
update_data_notify_first(v, d, f, cbs) ==
    LET d1 == IF f.type = "COMMON" THEN update_common_data(d, f) ELSE d
        d2 == update_device_specific_data(v, d1, f)
    IN  [device |-> d2, log |-> run_callbacks(cbs, d1)]
update_data(v, d, f, cbs) ==
    LET d1 == IF f.type = "COMMON" THEN update_common_data(d, f) ELSE d
        d2 == update_device_specific_data(v, d1, f)
    IN  [device |-> d2, log |-> run_callbacks(cbs, d2)]

\* everything but the device, its callbacks and the fragment
nodevice == <<taskvars, wrappervars, treevars, readvars, backgroundvars,
                   locations, restvars, factoryvars,
              remainingvars>>

\* a fragment for the device arrives (parse_device, setup_values_from_device_map)
ReceiveFragment(F) ==
    /\ fragment = NoFragment
    /\ fragment' \in F
    /\ UNCHANGED <<nodevice, variant, common, activity, duration,
                   duration_timestamp, remaining_time, valves,
                   valve_durations, notifyvars>>

\* update_data for the fragment that arrived
UpdateData ==
    /\ fragment # NoFragment
    /\ LET u == update_data(variant, Dev, fragment, callbacks)
       IN  /\ SetDevice(u.device)
           /\ callback_log' = u.log
    /\ fragment' = NoFragment
    /\ UNCHANGED <<nodevice, variant, callbacks>>

\* add_callback, base_device.py lines 31-33
AddCallback ==
    /\ Len(callbacks) < MaxCallbacks
    /\ \E c \in 1 .. MaxCallbacks : callbacks' = Append(callbacks, c)
    /\ UNCHANGED <<nodevice, devicevars, callback_log>>

\* time passes while no update runs
Tick ==
    /\ fragment = NoFragment
    /\ clock < MaxClock
    /\ clock' = clock + 1
    /\ UNCHANGED <<taskvars, wrappervars, treevars, backgroundvars,
                   locations, restvars,
                   factoryvars, remainingvars, devicevars, notifyvars,
                   read_value, reads>>

\* sensor.py line 184: the state of the entity is the field of the device
ReadRemaining ==
    /\ fragment = NoFragment
    /\ reads < MaxReads
    /\ read_value' = remaining_time
    /\ reads' = reads + 1
    /\ UNCHANGED <<taskvars, wrappervars, treevars, backgroundvars,
                   locations, restvars,
                   factoryvars, remainingvars, devicevars, notifyvars, clock>>

\* the device as its constructor leaves it
Constructed ==
    [common |-> [k \in CommonFields |-> "N/A"], activity |-> "N/A",
     duration |-> NoValue, duration_timestamp |-> "N/A",
     remaining_time |-> NoValue, valves |-> <<>>, valve_durations |-> <<>>]

\* a fragment of the service type of the variant v, about valve 1, with an
\* activity and nothing else, or with a duration attribute too
ActivityFragments(v) ==
    {[type |-> specific_type(v), id |-> 1,
      attributes |-> [k \in {"activity"} |-> a], duration |-> dd] :
        a \in ActivityValues(v),
        dd \in {NoDurationData,
                [form |-> "full", value |-> MaxDuration, elapsed |-> 0]}}

\* COMMON fragments: any of the seven attributes, all with the value w
CommonFragments(w) ==
    {[type |-> "COMMON", id |-> 0, attributes |-> [k \in S |-> w],
      duration |-> NoDurationData] : S \in SUBSET CommonFields}

\* a few fragments of every kind the device can get
NotifyFragments(v) ==
    ActivityFragments(v)
        \cup {[type |-> "COMMON", id |-> 0, attributes |-> [k \in S |-> w],
               duration |-> NoDurationData] :
                 S \in {{}, {"name"}, CommonFields}, w \in {"v1", "v2"}}
        \cup {[type |-> "DEVICE", id |-> 0, attributes |-> NoAttributes,
               duration |-> NoDurationData]}

\* VALVE fragments of a SmartIrrigationControl without duration attribute,
\* any of the four attributes present
ValveFragments ==
    {[type |-> "VALVE", id |-> i,
      attributes |-> [k \in S |-> IF k = "activity" THEN "CLOSED" ELSE "v1"],
      duration |-> NoDurationData] :
        i \in ValveIds, S \in SUBSET ValveFields}

\* the duration attributes of the fragments below: none, one with value and
\* timestamp, one without timestamp; read at once or after the time is up
DeviceDurations ==
    {[form |-> fo, value |-> IF fo = "absent" THEN 0 ELSE MaxDuration,
      elapsed |-> e] :
        fo \in {"absent", "full", "no_timestamp"},
        e \in {0, 2 * MaxDuration}}

\* fragments of the service type of the variant v with or without activity
\* and duration attribute
DurationFragments(v) ==
    {[type |-> specific_type(v), id |-> i, attributes |-> at,
      duration |-> dd] :
        i \in IF v = "SMART_IRRIGATION_CONTROL" THEN ValveIds ELSE {1},
        at \in {NoAttributes}
                 \cup {[k \in {"activity"} |-> a] : a \in ActivityValues(v)},
        dd \in DeviceDurations}

\* the rest of the program at rest, the device in the one location of the
\* client
DeviceRest ==
    /\ TaskIdle
    /\ locations = <<1>>
    /\ RestIdle
    /\ FactoryIdle
    /\ RemainingIdle

\* a device that got earlier COMMON fragments and at most one fragment of its
\* own type, and a COMMON fragment that arrived
CommonInit ==
    /\ DeviceRest
    /\ variant \in Variants
    /\ common \in [CommonFields -> {"N/A", "v1"}]
    /\ \E p \in {Constructed}
                  \cup {update_device_specific_data(variant, Constructed, g) :
                           g \in {h \in ActivityFragments(variant) :
                                     h.duration.form = "full"}} :
          /\ activity = p.activity
          /\ duration = p.duration
          /\ duration_timestamp = p.duration_timestamp
          /\ remaining_time = p.remaining_time
          /\ valves = p.valves
          /\ valve_durations = p.valve_durations
    /\ fragment \in CommonFragments("v2")
    /\ NotifyIdle

CommonNext == UpdateData

CommonSpec == CommonInit /\ [][CommonNext]_vars

\* a device of any variant, just constructed
NotifyInit ==
    /\ DeviceRest
    /\ variant \in Variants
    /\ DeviceInit
    /\ fragment = NoFragment
    /\ NotifyIdle

NotifyNext ==
    \/ AddCallback
    \/ ReceiveFragment(NotifyFragments(variant))
    \/ UpdateData

NotifySpec == NotifyInit /\ [][NotifyNext]_vars

\* a SmartIrrigationControl, just constructed
ValveInit ==
    /\ DeviceRest
    /\ variant = "SMART_IRRIGATION_CONTROL"
    /\ DeviceInit
    /\ fragment = NoFragment
    /\ NotifyIdle

ValveNext ==
    \/ ReceiveFragment(ValveFragments)
    \/ UpdateData

ValveSpec == ValveInit /\ [][ValveNext]_vars

DurationNext ==
    \/ ReceiveFragment(DurationFragments(variant))
    \/ UpdateData

DurationSpec == NotifyInit /\ [][DurationNext]_vars

\* fragments that start a timed operation now: the timestamp of the
\* duration attribute is the instant the fragment is processed
ReadFragments(v) ==
    {[type |-> specific_type(v), id |-> 1,
      attributes |-> [k \in {"activity"} |-> a],
      duration |-> [form |-> "full", value |-> d, elapsed |-> 0]] :
        a \in {x \in ActivityValues(v) : x \notin {"PARKED_TIMER", "OFF", "CLOSED"}}, d \in 1 .. MaxDuration}

\* a Mower, PowerSocket or WaterControl, just constructed, and the fragment
\* that starts its timed operation
ReadInit ==
    /\ DeviceRest
    /\ variant \in Variants \ {"SMART_IRRIGATION_CONTROL"}
    /\ DeviceInit
    /\ fragment \in ReadFragments(variant)
    /\ NotifyIdle

\* the update, then time passes and the field is read
ReadNext ==
    \/ UpdateData
    \/ Tick
    \/ ReadRemaining

ReadSpec == ReadInit /\ [][ReadNext]_vars

\* VALVE fragments without duration attribute: with an activity or none
TrackFragments ==
    {[type |-> "VALVE", id |-> i, attributes |-> at,
      duration |-> NoDurationData] :
        i \in ValveIds,
        at \in {NoAttributes}
                 \cup {[k \in {"activity"} |-> a] :
                          a \in {"MANUAL_WATERING", "CLOSED"}}}

TrackNext ==
    \/ ReceiveFragment(TrackFragments)
    \/ UpdateData
    \/ Tick

TrackSpec == ValveInit /\ [][TrackNext]_vars

(***************************************************************************)
(* The devices of the locations: update_devices fills them, on_message     *)
(* routes a frame to one of them.  An id is a sequence of tokens, Colon    *)
(* being the character ':'; a device is kept as its class and the number   *)
(* of calls of its update_data.                                            *)
(***************************************************************************)
DeviceIds == 1 .. MaxDevices

\* the character ':' of an id
Colon == 0

\* ids as the API makes them: the device id, for the services a device has
\* more than one of followed by ':' and a number
FragmentIds ==
    {<<d>> : d \in DeviceIds}
        \cup {<<d, Colon, n>> : d \in DeviceIds, n \in 1 .. MaxValves}

DeviceKeys == {<<d>> : d \in DeviceIds}

\* id.split(":")[0]
RECURSIVE split_first(_)
split_first(id) ==
    IF id = <<>> \/ Head(id) = Colon THEN <<>>
    ELSE <<Head(id)>> \o split_first(Tail(id))

\* types no service of supported_services has
UnknownTypes == {"WEBSOCKET", "common"}

\* the location maps there can be: a location that is not in the map of the
\* client has no devices
DeviceTrees ==
    {t \in [LocationIds ->
              UNION {[K -> [class : {"Mower"}, updates : {0}]] :
                        K \in SUBSET DeviceKeys}] :
        \A l \in LocationIds \ LocationKeys : t[l] = NoDevices}

\* lines 569-572: the locations that have the device, in the order of the
\* dict
owners(tree, key) ==
    {i \in DOMAIN locations : key \in DOMAIN tree[locations[i]]}

\* lines 567-572: update_data of the device in the first location that has
\* it
parse_device_every_owner(tree, f) ==
    LET key == split_first(f.id)
    IN  [l \in LocationIds |->
            IF l \in LocationKeys /\ key \in DOMAIN tree[l]
            THEN [tree[l] EXCEPT ![key].updates = @ + 1]
            ELSE tree[l]]
parse_device_update(tree, f) ==
    LET key == split_first(f.id)
        own == owners(tree, key)
    IN  IF own = {} THEN tree
        ELSE LET first == CHOOSE i \in own : \A j \in own : i <= j
             IN  [tree EXCEPT ![locations[first]][key].updates = @ + 1]

\* lines 547-560: the devices after on_message for the frame f, and how it
\* ends
on_message_any_type(tree, f) ==
    IF f.type = "LOCATION"
    THEN [tree |-> tree,
          result |-> parse_location([type |-> f.type, id |-> Head(f.id)])]
    ELSE [tree |-> parse_device_update(tree, f), result |-> "ok"]
on_message_effect(tree, f) ==
    IF f.type = "LOCATION"
    THEN [tree |-> tree,
          result |-> parse_location([type |-> f.type, id |-> Head(f.id)])]
    ELSE IF f.type \in ServiceTypes
    THEN [tree |-> parse_device_update(tree, f), result |-> "ok"]
    ELSE [tree |-> tree, result |-> "ok"]

\* the frames of the socket that are JSON objects with a type and an id
Frames ==
    {[type |-> "LOCATION", id |-> <<l>>] : l \in LocationIds}
        \cup [type : ServiceTypes \cup UnknownTypes, id : FragmentIds]

\* on_message runs for the frame
Dispatch ==
    /\ on_message_result = "none"
    /\ LET r == on_message_effect(location_devices, frame)
       IN  /\ location_devices' = r.tree
           /\ on_message_result' = r.result
    /\ UNCHANGED <<taskvars, wrappervars, readvars, backgroundvars,
                   locations, restvars, factoryvars,
                   devicevars, notifyvars, remainingvars, frame,
                   devices_response, update_devices_run>>

\* a client with locations and devices, and a frame that arrived
DispatchInit ==
    /\ TaskIdle
    /\ locations \in LocationMaps
    /\ CallsIdle
    /\ FactoryIdle
    /\ DeviceIdle
    /\ NotifyIdle
    /\ RemainingIdle
    /\ location_devices \in DeviceTrees
    /\ frame \in Frames
    /\ on_message_result = "none"
    /\ devices_response = NoDevicesResponse
    /\ update_devices_run = NotRun

DispatchNext == Dispatch

DispatchSpec == DispatchInit /\ [][DispatchNext]_vars

\* the fragments of the answer of GET /v2/locations/<id>: the API sends the
\* services COMMON and MOWER under the device id and every VALVE under the
\* device id, ':' and a number
IncludedFragments ==
    [type : {"COMMON", "MOWER"} \cup UnknownTypes, id : DeviceKeys]
        \cup [type : {"VALVE"}, id : FragmentIds \ DeviceKeys]

\* the types of the fragments of the sequence fs that belong to the device
\* id k
TypesOf(fs, k) == {fs[i].type : i \in {j \in DOMAIN fs : split_first(fs[j].id) = k}}

\* the answers the GET can have: none (an error answer), one without
\* devices, or one whose included fragments give every device that has a
\* service of its own the service COMMON too
DevicesResponses ==
    {NoDevicesResponse, [kind |-> "no_devices", included |-> <<>>]}
        \cup {[kind |-> "data", included |-> fs] :
                 fs \in {g \in UNION {[1 .. n -> IncludedFragments] :
                                         n \in 1 .. MaxIncluded} :
                            \A k \in DeviceKeys :
                               TypesOf(g, k) \cap {"MOWER", "VALVE"} # {}
                                  => "COMMON" \in TypesOf(g, k)}}

GroupIndex(groups, k) ==
    IF \E i \in DOMAIN groups : groups[i].real_id = k
    THEN CHOOSE i \in DOMAIN groups : groups[i].real_id = k
    ELSE 0

\* lines 273-280: devices_smart_system after the fragments rest, as the
\* groups in the order their ids first came, each with the fragments kept
RECURSIVE group_fragments_keep_all(_, _)
group_fragments_keep_all(groups, rest) ==
    IF rest = <<>> THEN groups
    ELSE LET f == Head(rest)
             k == split_first(f.id)
             with == IF GroupIndex(groups, k) = 0
                     THEN Append(groups, [real_id |-> k, kept |-> <<>>])
                     ELSE groups
         IN  group_fragments_keep_all(
                 [with EXCEPT ![GroupIndex(with, k)].kept = Append(@, f)],
                 Tail(rest))
RECURSIVE group_fragments(_, _)
group_fragments(groups, rest) ==
    IF rest = <<>> THEN groups
    ELSE LET f == Head(rest)
             k == split_first(f.id)
             with == IF GroupIndex(groups, k) = 0
                     THEN Append(groups, [real_id |-> k, kept |-> <<>>])
                     ELSE groups
         IN  group_fragments(
                 IF f.type \in ServiceTypes
                 THEN [with EXCEPT ![GroupIndex(with, k)].kept = Append(@, f)]
                 ELSE with,
                 Tail(rest))

\* the group as DeviceFactory.build reads it (no SENSOR fragment is among
\* the fragments above)
parsed_device(kept) ==
    [types |-> {kept[i].type : i \in DOMAIN kept},
     ambientTemperature |-> FALSE,
     valve_fragments |->
         Cardinality({i \in DOMAIN kept : kept[i].type = "VALVE"})]

\* the id of the device built from the fragments kept: that of its first
\* COMMON fragment (mower.py line 13 and the like)
device_id(kept) ==
    kept[CHOOSE i \in DOMAIN kept :
             /\ kept[i].type = "COMMON"
             /\ \A j \in 1 .. (i - 1) : kept[j].type # "COMMON"].id

\* lines 281-283: one call of build for every group
build_calls(groups) ==
    [i \in DOMAIN groups |->
        [real_id |-> groups[i].real_id,
         types |-> parsed_device(groups[i].kept).types,
         built |-> build(parsed_device(groups[i].kept)),
         fragments |-> Len(groups[i].kept),
         id |-> IF build(parsed_device(groups[i].kept)) = "None" THEN <<>>
                ELSE device_id(groups[i].kept)]]

\* Location.add_device for every device built; the constructor has called
\* update_data for every fragment kept (base_device.py lines 25-29)
RECURSIVE add_devices(_, _)
add_devices(devices, calls) ==
    IF calls = <<>> THEN devices
    ELSE LET c == Head(calls)
         IN  add_devices(
                 IF c.built = "None" THEN devices
                 ELSE (c.id :> [class |-> c.built, updates |-> c.fragments])
                          @@ devices,
                 Tail(calls))

\* lines 259-283: update_devices for the location l
update_devices(tree, l, r) ==
    LET calls == IF r.kind = "data"
                 THEN build_calls(group_fragments(<<>>, r.included))
                 ELSE <<>>
    IN  [tree |-> [tree EXCEPT ![l] = add_devices(@, calls)],
         run |-> [done |-> TRUE, location |-> l, calls |-> calls]]

UpdateDevices ==
    /\ ~update_devices_run.done
    /\ \E l \in LocationKeys :
          LET u == update_devices(location_devices, l, devices_response)
          IN  /\ location_devices' = u.tree
              /\ update_devices_run' = u.run
    /\ UNCHANGED <<taskvars, wrappervars, readvars, backgroundvars,
                   locations, restvars, factoryvars,
                   devicevars, notifyvars, remainingvars, frame,
                   on_message_result, devices_response>>

\* the location update_devices is called for, without devices yet, and the
\* answer of the GET for it
DevicesInit ==
    /\ TaskIdle
    /\ locations \in {l \in LocationMaps : Len(l) = 1}
    /\ CallsIdle
    /\ FactoryIdle
    /\ DeviceIdle
    /\ NotifyIdle
    /\ RemainingIdle
    /\ location_devices = [l \in LocationIds |-> NoDevices]
    /\ frame = NoFrame
    /\ on_message_result = "none"
    /\ devices_response \in DevicesResponses
    /\ update_devices_run = NotRun

DevicesNext == UpdateDevices

DevicesSpec == DevicesInit /\ [][DevicesNext]_vars

\* The event loop resumes a task whose await is over, and every await of the
\* task ends: requests and connect() have timeouts, recv is polled with a
\* timeout, the sleeps are timers.
FairSpec == Spec /\ WF_vars(TaskStep)

(***************************************************************************)
(* Properties.                                                             *)
(***************************************************************************)
\* a step in which start_ws returns to _managed_websocket_connection
StartWsReturns == pc \in InStartWs /\ pc' \in {"sup_wait", "completed"}

\* a step in which a stop() call ends
StopEnds == stop_pc' = "idle" /\ (stop_pc # "idle" \/ stop_calls' # stop_calls)

\* C1: while stop() has not been requested, after every session end or
\* failed attempt (the task is in the backoff sleep of start_ws or in the
\* wait of the supervisor) the task eventually makes another connection
\* attempt (under FairSpec).
C1_SelfHealing ==
    (pc \in {"sleep", "sup_wait"} /\ ~shutdown_event)
        ~> (pc = "negotiate" \/ shutdown_event)

\* C2: start_ws returns to the supervisor only when should_stop is set; with
\* should_stop false every error and every session end leads on to the
\* backoff sleep.
C2_ReturnsOnlyOnShouldStop ==
    [][StartWsReturns => should_stop]_vars

\* C3: after k failed attempts in a row, the last one a rate-limit error, the
\* delay slept is min(900, 5 * 2^k).
C3_RateLimitDelay ==
    (pc = "sleep" /\ handler = "rate_limit")
        => delay = Min(MAX_BACKOFF_VALUE, base_delay * (2 ^ connection_attempts))

\* C4: the socket is open only while the read loop is suspended in recv:
\* in the backoff sleep, in the next attempt, and once start_ws has returned
\* or was cancelled, the socket of the session is not open.
C4_SocketClosedOnExit ==
    sock = "open" => pc = "recv"

C4_Witness ==
    pc = "cancelled" /\ exit_reason = "cancel" /\ sock = "closed"

C6_PromptStop ==
    [][should_stop =>
          (pc' \in {"recv", "sleep", "neg_retry"}
              => <<pc, slept, elapsed>>' = <<pc, slept, elapsed>>)]_vars

\* C7: the read loop never polls a session that has reached the 2-hour cap;
\* the exit at the cap leaves the socket closed, takes no except clause,
\* leads to the backoff sleep with the failure counter at 0 (unless
\* should_stop was set or the task was cancelled meanwhile).
C7_TwoHourCap ==
    /\ pc = "recv" => elapsed < max_connection_duration
    /\ exit_reason = "cap" =>
          /\ sock = "closed"
          /\ handler = "none"
          /\ elapsed >= max_connection_duration
          /\ pc \in {"close", "cancelled"} \/ connection_attempts = 0
          /\ pc \in {"close", "sleep"} \/ should_stop \/ pc = "cancelled"

C7_Witness ==
    exit_reason = "cap" /\ pc = "sleep" /\ connection_attempts = 0

\* C8: the second stop() call ends without an error and in the end state of
\* the first: event set, client should_stop set, not connected, and the task
\* stop() dealt with finished.
C8_StopTwice ==
    [][(StopEnds /\ stop_calls' = 2) =>
          /\ stop_result' = "returned"
          /\ shutdown_event'
          /\ should_stop'
          /\ ~is_ws_connected'
          /\ pc' \notin (Running \ {"created"})]_vars

\* C9: a stop() call on a supervisor that was never started changes nothing
\* of the client and sends no request.
C9_StopNeverStartedNoOp ==
    [][(stop_calls' # stop_calls /\ pc = "no_task") =>
          /\ should_stop' = should_stop
          /\ revoke_posts' = revoke_posts]_vars

\* C10: a stop() call that found the task running sets the event and cancels
\* the task; it is past its wait (quit() called, or stop() over) only with
\* the task done and is_ws_connected false.
C10_StopAwaitsTask ==
    /\ stop_pc \in {"wait_task", "wait_late"} =>
          shutdown_event /\ stop_found_running
    /\ (stop_found_running /\ stop_pc \notin {"wait_task", "wait_late"}) =>
          /\ shutdown_event
          /\ pc \in Done
          /\ ~must_cancel
          /\ ~is_ws_connected

C10_Witness ==
    /\ stop_found_running
    /\ stop_pc = "idle"
    /\ pc = "cancelled"
    /\ exit_reason = "cancel"
    /\ should_stop

\* C11: under every sequence of start() and stop() calls at most one
\* reconnect-loop task is running against the client.
C11_SingleTask ==
    RunningTasks <= 1

\* C12: start() on a client without locations spawns no task and the status
\* stays not_started; with locations it spawns one task, bound to the first
\* location of the map.  No start() call ends in another way.
C12_StartNeedsLocation ==
    /\ start_result \in {"none", "no_locations", "spawned"}
    /\ start_result = "no_locations" =>
          /\ locations = <<>>
          /\ pc = "no_task"
          /\ websocket_task_status = "not_started"
    /\ start_result = "spawned" =>
          /\ locations # <<>>
          /\ pc # "no_task"
          /\ task_location = locations[1]
          /\ RunningTasks <= 1
    /\ locations = <<>> => pc = "no_task"

C12_Witness ==
    start_result = "no_locations" /\ pc = "no_task" /\ stop_calls = 0

\* C13: a quit() whose revoke request fails returns to its caller all the
\* same, with should_stop set.
C13_QuitSwallowsRevokeFailure ==
    [][(stop_pc = "revoke" /\ stop_pc' = "idle") =>
          (stop_result' = "returned" /\ should_stop')]_vars

\* C14: a LOCATION frame with an id that is not in the location map does
\* not end the session: on_message raises nothing for it.
C14_UnknownLocationNoOp ==
    (message.type = "LOCATION" /\ message.id \notin LocationKeys)
        => exit_reason \notin {"error", "attr_error"}

\* C15: a frame that is not JSON or has no type member does not end the
\* session: the failure of on_message is not what the read loop is left by.
C15_MalformedFrameDropped ==
    message.type \in {"NOT_JSON", "NO_TYPE"}
        => exit_reason \notin {"error", "attr_error"}

\* C16: after a connection-closed or token error the delay slept is 10 s
\* below 5 failures in a row and min(60, 10 + 10 * (n - 5)) s from 5 on.
C16_ConnClosedDelay ==
    (pc = "sleep" /\ handler = "conn_closed") =>
        delay = IF connection_attempts < max_consecutive_failures
                THEN 10
                ELSE Min(60, 10 + 10 * (connection_attempts - max_consecutive_failures))

\* C17: a 429 answer to the negotiation is not retried by the decorator: in
\* the step that receives it __get_ws_url is left, no socket is opened, and
\* start_ws takes its rate-limit clause and counts one failed attempt.
C17_RateLimitNotRetried ==
    [][(pc = "negotiate" /\ status_code' = 429) =>
          /\ pc' # "neg_retry"
          /\ sock' = "none"
          /\ handler' = "rate_limit"
          /\ connection_attempts' = connection_attempts + 1]_vars

C17_Witness ==
    /\ pc = "sleep"
    /\ status_code = 429
    /\ handler = "rate_limit"
    /\ connection_attempts = 1

\* C18: for the attempt count n it reads, calculate_backoff_delay returns
\* min(900, 5 * 2^n): 5, 10, 20, 40, 80, 160 for n = 0..5 and 900 for
\* n = 10; it is between 5 and 900, and not below the value it returned
\* for a smaller n (delay holds a value returned at an earlier count).
C18_BackoffFormula ==
    LET n == self_connection_attempts
        d == calculate_backoff_delay
    IN  /\ d = Min(900, 5 * (2 ^ n))
        /\ n = 0 => d = 5
        /\ n = 1 => d = 10
        /\ n = 2 => d = 20
        /\ n = 3 => d = 40
        /\ n = 4 => d = 80
        /\ n = 5 => d = 160
        /\ n = 10 => d = 900
        /\ 5 <= d /\ d <= 900
        /\ delay <= d

C18_Witness ==
    self_connection_attempts = 10 /\ delay = 900

\* C19: is_websocket_connected holds exactly when a task exists, is not
\* done and the client's flag is set; the status is not_started iff no
\* task was ever created, running iff the task is not done, cancelled iff
\* it was cancelled (as the task a stop() call found running is, once the
\* call is through), failed iff it ended with an exception, completed
\* otherwise; is_websocket_connected implies the status running.
C19_StatusProperties ==
    /\ is_websocket_connected <=>
          (start_result = "spawned" /\ pc \in Running /\ is_ws_connected)
    /\ websocket_task_status = "not_started" <=> start_result # "spawned"
    /\ websocket_task_status = "running" <=> pc \in Running
    /\ websocket_task_status = "cancelled" <=> pc = "cancelled"
    /\ websocket_task_status = "failed" <=> pc = "failed"
    /\ websocket_task_status = "completed" <=> pc = "completed"
    /\ (stop_found_running /\ stop_pc = "idle") =>
          websocket_task_status = "cancelled"
    /\ is_websocket_connected => websocket_task_status = "running"

C19_Witness ==
    /\ websocket_task_status = "cancelled"
    /\ stop_pc = "revoke"
    /\ is_ws_connected = FALSE
    /\ exit_reason = "server_close"

\* C20: authenticate is called at most 3 times, call i + 1 in iteration i;
\* a success returns at once; an error that is no conflict, and a conflict
\* in the third iteration, are re-raised at once and the setup fails (the
\* client of the entry leaves hass.data); a conflict in iteration i = 0, 1
\* is followed by a wait of 15 + 10 * i s, and iteration i + 1 runs the
\* session cleanup, which calls quit() on the client, before
\* authenticate.
C20_AuthRetry ==
    /\ authenticate_calls <= 3
    /\ auth_pc \in {"authenticate", "returned", "raised", "wait"} =>
          /\ authenticate_calls = attempt + 1
          /\ cleanup_runs = attempt
          /\ attempt > 0 => should_stop
    /\ auth_pc = "returned" => ex = "none"
    /\ ex = "other" => auth_pc = "raised"
    /\ ex = "conflict" =>
          IF attempt < 2
          THEN /\ auth_pc \in {"wait", "timed_out"}
               /\ wait_time = 15 + 10 * attempt
          ELSE auth_pc = "raised"
    /\ auth_pc = "raised" => (ex # "none" /\ "entry" \notin domain_data)
    /\ auth_pc = "cleanup_sleep" =>
          /\ cleanup_runs = attempt
          /\ authenticate_calls = attempt
          /\ should_stop

C20_Witness ==
    /\ auth_pc = "raised"
    /\ ex = "conflict"
    /\ authenticate_calls = 3
    /\ cleanup_runs = 2
    /\ wait_time = 25

\* C21: a call of update_locations either returns with the map holding
\* exactly the locations of the answer, or raises ConnectionError with the
\* map as it was before the call; no other map is ever left behind.
C21_AllOrNothing ==
    [][(response' # response \/ update_result' # update_result
            \/ locations' # locations) =>
          \/ /\ update_result' = "returned"
             /\ response'.kind = "data"
             /\ {locations'[i] : i \in DOMAIN locations'}
                    = {response'.data[i].id : i \in DOMAIN response'.data}
          \/ /\ update_result' = "ConnectionError"
             /\ locations' = locations]_vars

\* C22: call_smart_system_service returns exactly when the PUT was answered
\* with status 202, raises for every other answer, and has sent one PUT.
C22_ServiceAccepted ==
    service_result # "none" =>
        /\ service_result = "returned" <=> service_status = 202
        /\ service_result # "returned" =>
               service_result \in {"ConnectionError", "KeyError"}
        /\ service_puts = 1

C22_Witness ==
    /\ service_result = "returned"
    /\ service_status = 202
    /\ service_puts = 1

UpdateStep == fragment # NoFragment /\ fragment' = NoFragment

\* C23: update_data with a COMMON fragment sets each of the seven common
\* fields whose attribute the fragment has to the value of the fragment and
\* leaves the other common fields and every field of the variant as they
\* were.
C23_CommonFragment ==
    [][(UpdateStep /\ fragment.type = "COMMON") =>
          /\ \A k \in CommonFields :
                common'[k] = IF k \in DOMAIN fragment.attributes
                             THEN fragment.attributes[k]
                             ELSE common[k]
          /\ UNCHANGED <<activity, duration, duration_timestamp,
                         remaining_time, valves, valve_durations>>]_vars

C23_Witness ==
    /\ fragment = NoFragment
    /\ variant = "WATER_CONTROL"
    /\ common["battery_level"] = "v2"
    /\ common["name"] = "v1"
    /\ common["serial"] = "N/A"
    /\ activity = "MANUAL_WATERING"
    /\ duration = MaxDuration

\* C24: a VALVE fragment that lacks one of activity, state, name and
\* lastErrorCode leaves the value stored for that field of the valve as it
\* was.
C24_ValveFieldKept ==
    [][UpdateStep =>
          \A i \in DOMAIN valves : \A k \in ValveFields :
              (k \notin DOMAIN fragment.attributes /\ valves[i][k] # "N/A")
                  => valves'[i][k] = valves[i][k]]_vars

C27_InactiveValveCleared ==
    [][(/\ UpdateStep
        /\ variant = "SMART_IRRIGATION_CONTROL"
        /\ fragment.type = "VALVE"
        /\ ~is_valve_active(fragment)
        /\ duration_record(valve_durations, fragment.id).was_active) =>
          /\ duration_record(valve_durations', fragment.id)
                = ClearedDuration(fragment.id)
          /\ (\A i \in DOMAIN valve_durations' :
                 ~valve_durations'[i].was_active) =>
                 /\ duration' = 0
                 /\ duration_timestamp' = "N/A"
                 /\ remaining_time' = 0]_vars

\* the activities that are no timed operation
InactiveActivities == {"PARKED_TIMER", "OFF", "CLOSED"}

\* C28: while the latest activity of a Mower, PowerSocket or WaterControl
\* is inactive its duration and remaining time are 0 or 'N/A'; while the
\* latest activity of a valve of a SmartIrrigationControl is inactive the
\* duration and remaining time of its record are 0 or 'N/A', and so are the
\* device-level fields while that holds of all its valves.
C28_InactiveMeansCleared ==
    fragment = NoFragment =>
        /\ variant # "SMART_IRRIGATION_CONTROL" =>
               (activity \in InactiveActivities =>
                   /\ duration \in {0, NoValue}
                   /\ remaining_time \in {0, NoValue})
        /\ variant = "SMART_IRRIGATION_CONTROL" =>
               /\ \A i \in DOMAIN valve_durations :
                      LET r == valve_durations[i]
                      IN  (r.id \in DOMAIN valves
                              /\ valves[r.id].activity \in InactiveActivities)
                            => /\ r.duration \in {0, NoValue}
                               /\ r.remaining_time \in {0, NoValue}
               /\ (/\ valves # <<>>
                   /\ \A v \in DOMAIN valves :
                         valves[v].activity \in InactiveActivities) =>
                      /\ duration \in {0, NoValue}
                      /\ remaining_time \in {0, NoValue}

\* the positions of the websocket task at which a connection has been opened
\* and its attempt has not ended
InSession == {"recv", "close"}

\* C30: is_ws_connected is true only between a successful socket open and
\* the end of that connection attempt (it is false before the first attempt,
\* while connecting, during every backoff sleep and after start_ws returned),
\* and a registered status callback has been called with the value of the
\* flag each time the flag was set: it was not called before the flag was
\* first set, and its last argument is the value of the flag.
C30_WsStatus ==
    /\ is_ws_connected => pc \in InSession /\ sock # "none"
    /\ ws_notified = <<>> => ~is_ws_connected /\ connection_attempts = 0
    /\ ws_notified # <<>> => ws_notified = <<is_ws_connected>>

\* a connection was opened and lost, and the task sleeps before the next
\* attempt: the callback was called with True and then with False
C30_Witness ==
    /\ pc = "sleep"
    /\ connection_attempts > 0
    /\ sock = "closed"
    /\ ws_notified = <<FALSE>>

\* a step in which on_message runs
OnMessageStep == on_message_result = "none" /\ on_message_result' # "none"

\* the position in the location map of the first location that has a device
\* under the id k, 0 when none has
FirstOwner(k) ==
    IF \E i \in DOMAIN locations : k \in DOMAIN location_devices[locations[i]]
    THEN CHOOSE i \in DOMAIN locations :
             /\ k \in DOMAIN location_devices[locations[i]]
             /\ \A j \in 1 .. (i - 1) :
                    k \notin DOMAIN location_devices[locations[j]]
    ELSE 0

\* C31: on_message for a frame of an allow-listed service type with the id
\* '<deviceId>:<svc>' (or '<deviceId>') returns without error and calls
\* update_data exactly once, on the device stored under <deviceId> in the
\* first location that contains it; every other device is left as it was,
\* and if no location contains <deviceId> nothing changes.
C31_RoutedToFirstOwner ==
    [][(OnMessageStep /\ frame.type \in ServiceTypes) =>
          LET k == <<frame.id[1]>>
              o == FirstOwner(k)
          IN  /\ on_message_result' = "ok"
              /\ locations' = locations
              /\ \A l \in LocationIds :
                    /\ DOMAIN location_devices'[l] = DOMAIN location_devices[l]
                    /\ \A d \in DOMAIN location_devices[l] :
                          IF o # 0 /\ l = locations[o] /\ d = k
                          THEN /\ location_devices'[l][d].updates
                                     = location_devices[l][d].updates + 1
                               /\ location_devices'[l][d].class
                                     = location_devices[l][d].class
                          ELSE location_devices'[l][d] = location_devices[l][d]]_vars

\* a frame with a suffixed id was routed to a device that two locations
\* have: the device of the first got it, the device of the second did not
C31_Witness ==
    /\ on_message_result = "ok"
    /\ frame.type = "VALVE"
    /\ Len(frame.id) > 1
    /\ Len(locations) = 2
    /\ <<frame.id[1]>> \in DOMAIN location_devices[locations[1]]
    /\ <<frame.id[1]>> \in DOMAIN location_devices[locations[2]]
    /\ location_devices[locations[1]][<<frame.id[1]>>].updates = 1
    /\ location_devices[locations[2]][<<frame.id[1]>>].updates = 0

\* C32: on_message for a frame whose type is neither LOCATION nor one of the
\* seven allow-listed service types returns without error and changes
\* nothing: no location and no device is modified and no update_data (and so
\* no device callback) runs.
C32_UnknownDropped ==
    [][(OnMessageStep /\ frame.type \notin ServiceTypes \cup {"LOCATION"}) =>
          /\ on_message_result' = "ok"
          /\ location_devices' = location_devices
          /\ UNCHANGED <<locations, devicevars, notifyvars>>]_vars

\* a frame of an unknown type came for a device a location has
C32_Witness ==
    /\ on_message_result = "ok"
    /\ frame.type \in UnknownTypes
    /\ locations # <<>>
    /\ <<frame.id[1]>> \in DOMAIN location_devices[locations[1]]
    /\ location_devices[locations[1]][<<frame.id[1]>>].updates = 0

\* the part before the first ':' of the ids of the fragments the GET returned
IncludedIds ==
    {<<devices_response.included[i].id[1]>> :
        i \in DOMAIN devices_response.included}

\* the allow-listed types among the fragments with the device id k
SupportedTypesOf(k) ==
    {devices_response.included[i].type :
        i \in {j \in DOMAIN devices_response.included :
                  /\ devices_response.included[j].id[1] = k[1]
                  /\ devices_response.included[j].type \in ServiceTypes}}

C34_RecomputedOnRead ==
    [][(reads' = reads + 1 /\ duration > 0 /\ duration_timestamp = "ts") =>
          read_value' = whole_seconds(Max(0, 2 * duration - clock))]_vars

\* the record of valve_durations of the valve the fragment under update is
\* about, before the update
RecordBefore == duration_record(valve_durations, fragment.id)

\* the valve of the fragment under update was active by its latest fragment
ActiveBefore ==
    /\ fragment.id \in DOMAIN valves
    /\ valves[fragment.id].activity \in WateringActivities

\* C35: for a valve of a SmartIrrigationControl whose VALVE fragments carry
\* no duration field, the fragment that takes it from inactive to active
\* records the wall clock as its timestamp, with duration 0; each later
\* fragment while it stays active sets remaining_time to the whole seconds
\* elapsed since that timestamp and leaves the timestamp as it is.
C35_LocalTracking ==
    [][(UpdateStep /\ is_valve_active(fragment)) =>
          LET after == duration_record(valve_durations', fragment.id)
          IN  IF ActiveBefore
              THEN /\ after.timestamp = RecordBefore.timestamp
                   /\ after.since = RecordBefore.since
                   /\ after.remaining_time
                          = (clock - RecordBefore.since) \div 2
              ELSE /\ after.timestamp = "local"
                   /\ after.since = clock
                   /\ after.duration = 0]_vars

\* a valve that became active was reported active again three half seconds
\* later: one whole second elapsed
C35_Witness ==
    /\ fragment = NoFragment
    /\ \E i \in DOMAIN valve_durations :
          /\ valve_durations[i].was_active
          /\ valve_durations[i].timestamp = "local"
          /\ valve_durations[i].since = clock - 3
          /\ valve_durations[i].remaining_time = 1

\* the records of valve_durations that are tracked as active
TrackedActive == {i \in DOMAIN valve_durations : valve_durations[i].was_active}

\* C39: in a SmartIrrigationControl that got VALVE fragments, the
\* device-level valve_duration / valve_duration_timestamp /
\* valve_remaining_time are those of a valve tracked as active whenever a
\* valve is tracked as active, and are 0 / 'N/A' / 0 when none is.
C39_DeviceLevelFollowsActive ==
    (variant = "SMART_IRRIGATION_CONTROL" /\ fragment = NoFragment
        /\ valve_durations # <<>>) =>
        IF TrackedActive # {}
        THEN \E i \in TrackedActive :
                /\ duration = valve_durations[i].duration
                /\ duration_timestamp = valve_durations[i].timestamp
                /\ remaining_time = valve_durations[i].remaining_time
        ELSE /\ duration = 0
             /\ duration_timestamp = "N/A"
             /\ remaining_time = 0

(***************************************************************************)
(* The wait of _managed_websocket_connection between two calls of          *)
(* start_ws (__init__.py 486-522), on its own: the iterations of the while *)
(* loop, whatever start_ws did.                                            *)
(***************************************************************************)
reconnect_delay == 5
max_reconnect_delay == 300

\* lines 506-509, in half seconds: reconnect_delay * (2 ** min(n - 1, 5))
\* capped by max_reconnect_delay.  For n = 0 the exponent is -1 and the
\* product is the float 2.5, five half seconds
current_delay_of(n) ==
    Min(2 * max_reconnect_delay,
        IF n = 0 THEN reconnect_delay
        ELSE 2 * reconnect_delay * (2 ^ Min(n - 1, 5)))

\* lines 491-509 with the shutdown event not set: start_ws returned or
\* raised an Exception, and the delay of the wait is computed
ManagedIteration ==
    /\ ~shutdown_event
    /\ reconnect_attempts < MaxReconnectAttempts
    /\ \E raised \in BOOLEAN :
         LET n == IF raised THEN reconnect_attempts + 1 ELSE reconnect_attempts
         IN  /\ reconnect_attempts' = n
             /\ current_delay' = current_delay_of(n)
    /\ UNCHANGED <<pc, sock, is_ws_connected, connection_attempts, delay,
                   slept, elapsed, handler, exit_reason, close_then, message,
                   status_code, ws_notified>>
    /\ UNCHANGED <<wrappervars, treevars, readvars, locations, restvars,
                   factoryvars, devicevars, notifyvars, remainingvars,
                   setup_pc, devices_loaded>>

ManagedInit ==
    /\ TaskIdle
    /\ locations = <<1>>
    /\ DataInit

ManagedSpec == ManagedInit /\ [][ManagedIteration]_vars

\* C38: the wait between a return or exception of start_ws and the next
\* call of start_ws is never below the 5-second initial delay nor above the
\* 300-second maximum, for every number n >= 0 of exceptions caught.
C38_DelayWithinBounds ==
    current_delay # NotComputed =>
        /\ current_delay >= 2 * reconnect_delay
        /\ current_delay <= 2 * max_reconnect_delay

\* C37: when quit() was called on the client while the supervisor task is
\* running, the task eventually terminates even if stop() is never called
\* (under FairSpec): it does not call start_ws again and again for ever.
C37_QuitEndsSupervisor ==
    (should_stop /\ pc \in Running) ~> (pc \in Done \/ shutdown_event)

(***************************************************************************)
(* _complete_setup_background (__init__.py 241-304): the authentication,   *)
(* the loading of the locations and of their devices, the platforms, the   *)
(* wrapper and its start(), followed by the reconnect task.                *)
(***************************************************************************)
\* the answers of the GET of update_locations the setup is checked with: an
\* error, one location, a well-formed entry followed by a malformed one,
\* and as many locations as there can be
SetupResponses ==
    {r \in Responses :
        \/ r.kind = "get_raises"
        \/ /\ r.kind = "data"
           /\ Len(r.data) >= 1
           /\ r.data[1] = [id |-> 1, well_formed |-> TRUE]
           /\ \A i \in DOMAIN r.data : i > 1 => r.data[i].id = i}

\* the outcomes of the GET of update_devices the setup is checked with: it
\* raises, it answers without devices, or with the service COMMON of one
\* device
SetupDevicesAnswers ==
    {[kind |-> "get_raises", included |-> <<>>],
     [kind |-> "no_devices", included |-> <<>>],
     [kind |-> "data", included |-> <<[type |-> "COMMON", id |-> <<1>>]>>]}

\* the step that follows update_locations whenever it left a location,
\* whether it returned or raised
after_update_locations_any_result(u) ==
    IF u.locations = <<>> THEN "no_locations" ELSE "devices"

\* lines 251-261 and 296: an exception of update_locations is taken by the
\* except clause; without locations the setup returns
after_update_locations(u) ==
    IF u.result # "returned" THEN "failed"
    ELSE IF u.locations = <<>> THEN "no_locations"
    ELSE "devices"

\* what no step of the setup after the authentication writes
setupframe ==
    <<taskvars, must_cancel, should_stop, self_connection_attempts,
      shutdown_event, stop_pc, stop_calls, stop_result, stop_found_running,
      revoke_posts, has_token, task_location, start_result, orphans, auth_pc,
      attempt, authenticate_calls, wait_time, cleanup_wait, cleanup_runs, ex,
      ws_status_callback, service_status, service_result, service_puts,
      factoryvars, devicevars, notifyvars, remainingvars, frame,
      on_message_result, readvars, current_delay>>

\* lines 250-261: _authenticate_with_retry returned and update_locations is
\* awaited; lines 260 and 302 remove the client of the entry from hass.data
SetupLocations ==
    /\ setup_pc = "auth"
    /\ auth_pc = "returned"
    /\ \E r \in SetupResponses :
         LET u == update_locations(locations, r)
             next == after_update_locations(u)
         IN  /\ response' = r
             /\ locations' = u.locations
             /\ update_result' = u.result
             /\ setup_pc' = next
             /\ domain_data' = IF next \in {"failed", "no_locations"}
                               THEN domain_data \ {"entry"}
                               ELSE domain_data
    /\ UNCHANGED <<devices_loaded, location_devices, devices_response,
                   update_devices_run>>
    /\ UNCHANGED setupframe

\* lines 263-270: one iteration of the loop over the locations, in the order
\* of the map: update_devices is awaited for the next location and returns
\* or raises
SetupDevices ==
    /\ setup_pc = "devices"
    /\ \E r \in SetupDevicesAnswers :
         LET l == locations[Cardinality(devices_loaded) + 1]
             u == update_devices(location_devices, l, r)
         IN  /\ devices_response' = r
             /\ IF r.kind = "get_raises"
                THEN /\ setup_pc' = "failed"
                     /\ domain_data' = domain_data \ {"entry"}
                     /\ UNCHANGED <<devices_loaded, location_devices,
                                    update_devices_run>>
                ELSE /\ location_devices' = u.tree
                     /\ update_devices_run' = u.run
                     /\ devices_loaded' = devices_loaded \cup {l}
                     /\ setup_pc' = IF Cardinality(devices_loaded) + 1
                                        = Len(locations)
                                    THEN "platforms"
                                    ELSE "devices"
                     /\ UNCHANGED domain_data
    /\ UNCHANGED <<locations, response, update_result>>
    /\ UNCHANGED setupframe

\* lines 272-289: async_forward_entry_setups is awaited; when it returns the
\* wrapper is constructed and stored, when it raises line 302 removes the
\* client of the entry
SetupPlatforms ==
    /\ setup_pc = "platforms"
    /\ \E forwarded \in BOOLEAN :
         IF forwarded
         THEN /\ setup_pc' = "start"
              /\ domain_data' = domain_data \cup {"wrapper"}
         ELSE /\ setup_pc' = "failed"
              /\ domain_data' = domain_data \ {"entry"}
    /\ UNCHANGED <<locations, response, update_result, devices_loaded,
                   location_devices, devices_response, update_devices_run>>
    /\ UNCHANGED setupframe

\* line 293: start() of the wrapper just stored
SetupStart ==
    /\ setup_pc = "start"
    /\ Start

\* the entry of async_setup_entry: a client just constructed and stored
\* (lines 232-238), nothing else in hass.data
SetupInit ==
    /\ AuthConstruction
    /\ has_token
    /\ domain_data = {"entry"}
    /\ setup_pc = "auth"
    /\ devices_loaded = {}
    /\ current_delay = NotComputed

SetupNext ==
    \/ AuthBegin
    \/ AuthenticateReturns
    \/ AuthenticateRaises
    \/ AuthWaitOver
    \/ AuthCleanupOver
    \/ AuthTimeout
    \/ SetupLocations
    \/ SetupDevices
    \/ SetupPlatforms
    \/ SetupStart
    \/ TaskFirstRun
    \/ NegotiateOk
    \/ NegotiateHttpError
    \/ NegotiateRetry
    \/ NegotiateRaise
    \/ ConnectOk
    \/ ConnectRaise
    \/ RecvMessage
    \/ RecvTimeout
    \/ RecvConnectionClosed
    \/ CloseDone
    \/ SleepTick
    \/ SupervisorWaitEnds
    \/ ServerClose

SetupSpec == SetupInit /\ [][SetupNext]_vars

\* C36: when the authentication succeeded on a retry attempt and the setup
\* then started the supervisor, the first run of the task attempts a
\* connection: start_ws does not return without connecting.
C36_RetryThenConnects ==
    [][(attempt > 0 /\ pc = "created" /\ pc' # "created")
          => pc' = "negotiate"]_vars

\* the setup has failed: the authentication raised or timed out, or a later
\* step raised or found no location
SetupFailed ==
    \/ auth_pc \in {"raised", "timed_out"}
    \/ setup_pc \in {"failed", "no_locations"}

\* C40: start() of the supervisor is called, and a task exists, only after
\* the authentication returned, update_locations returned with at least one
\* location and update_devices returned for every location; when a step of
\* the setup failed no wrapper is stored, start() is not called and no task
\* exists.
C40_StartAfterSetup ==
    /\ (pc # "no_task" \/ start_result # "none") =>
          /\ auth_pc = "returned"
          /\ update_result = "returned"
          /\ locations # <<>>
          /\ devices_loaded = LocationKeys
          /\ setup_pc = "start"
    /\ SetupFailed =>
          /\ pc = "no_task"
          /\ start_result = "none"
          /\ "wrapper" \notin domain_data

\* the task attempts a connection after a setup that loaded two locations
C40_Witness ==
    /\ pc = "negotiate"
    /\ setup_pc = "start"
    /\ Len(locations) = 2
    /\ devices_loaded = {1, 2}
====
